---- MODULE Spec2Model ----
(***************************************************************************)
(* Stopwatch for the BeagleBone Black (src/src/stopwatch.c): three         *)
(* periodic threads (button sampler, timer accumulator, display) share     *)
(* current_time, stopwatch_running and reset_requested under one mutex;    *)
(* a signal handler (cleanup) drives the LEDs off and exits the process.   *)
(*                                                                         *)
(* Every thread has a program counter; one action is one statement (or a   *)
(* run of statements that touch only thread-private data).                 *)
(*                                                                         *)
(* Environment: the sampled pin levels and the clock deltas are inputs;    *)
(* one termination signal may arrive at any moment, on the stack of any    *)
(* thread; pthread_mutex_lock and pthread_mutex_unlock on the initialised  *)
(* mutex return 0; an LED holds the level last written to its pin.         *)
(*                                                                         *)
(* Specifications:                                                         *)
(*   Spec          the three workers and cleanup of src/src/stopwatch.c,   *)
(*                 from the moment main has created the workers;           *)
(*   SpecStartup   main of src/src/stopwatch.c up to the joins;            *)
(*   SpecFixed     main and cleanup of the fixed-pin driver,               *)
(*                 src/stopwatch.c;                                        *)
(*   SpecLockFail  Spec without outside signals, with lock and unlock      *)
(*                 calls that may fail;                                    *)
(*   SpecClock     the button and timer threads with an explicit clock;    *)
(*   SpecPwm       one call of setup_pwm (src/bbbio.c);                    *)
(*   SpecGpio      calls of setup_gpio_pin (src/bbbio.c);                  *)
(*   SpecFixedWorkers  the button and timer threads and cleanup of         *)
(*                 src/stopwatch.c, with a wall clock that may be set      *)
(*                 back and lock calls on the destroyed mutex;             *)
(*   SpecDisplay   Spec without signals, with what the display prints;     *)
(*   SpecSched     the workers of src/src/stopwatch.c on one processor     *)
(*                 under SCHED_FIFO with priority inheritance;             *)
(*   SpecLive      the workers of src/src/stopwatch.c without signals,     *)
(*                 each scheduled again and again.                         *)
(* The variables a specification does not use keep their initial values.   *)
(***************************************************************************)
EXTENDS Integers, FiniteSets, Sequences, TLC

(***************************************************************************)
(* Bounds of the model.                                                    *)
(***************************************************************************)
\* the bounded stand-in for FLT_MAX: current_time ranges over 0..MaxTime
MaxTime == 2
\* the largest delta (in model time units) between two timer ticks
MaxDelta == 1
\* the number of start/stop rising edges the environment produces
MaxEdges == 2

(***************************************************************************)
(* Program constants.                                                      *)
(***************************************************************************)
GPIO_OFF == 0
GPIO_ON == 1

\* read_gpio_value returns 1, 0 or -1 (failure)
Levels == {-1, 0, 1}

\* the threads of the process; a signal handler runs in the context of one
Workers == {"button", "display", "timer"}
Threads == Workers \cup {"main"}
NoOwner == "none"

VARIABLES
    \* shared timer state (src/src/stopwatch.c:12-14)
    current_time, stopwatch_running, reset_requested,
    \* owner of the mutex (src/src/stopwatch.c:9), NoOwner when free
    mutex,
    \* button thread: position and locals (src/src/stopwatch.c:46-50)
    bpc, start_stop_prev, start_stop_current, reset_prev, reset_current, state,
    \* display thread: position and locals (src/src/stopwatch.c:95-96)
    dpc, time_to_display, is_running,
    \* timer thread: position and locals (src/src/stopwatch.c:127-128)
    tpc, elapsed_time,
    \* the levels last driven on the two LED pins
    red_led, green_led,
    \* the signal handler: position, and the thread it interrupted
    hpc, hctx,
    \* the exit code of the process, -1 while it runs
    exit_code,
    \* history: start/stop level of the previous sample, rising edges seen in
    \* the samples, flips of stopwatch_running performed
    lastLevel, nEdges, nFlips,
    \* history: reset_requested at the moment the timer acquired the mutex
    tEntryReset,
    \* history: the current button tick has executed line 76
    tickSetReset,
    \* history: off-writes of each LED performed by cleanup
    redOffWrites, greenOffWrites,
    \* main: position, the worker threads created so far
    mpc, created,
    \* main: outcome of reading the pin identifiers, the pins configured,
    \* the value get_input_and_initialize_gpio returns
    input, pins_configured, ret,
    \* main: the SCHED_FIFO range and the priorities put in the attributes
    min_priority, max_priority,
    button_priority, timer_priority, display_priority,
    \* history: the worker in which pthread_mutex_lock or pthread_mutex_unlock
    \* reported a failure, "none" while there is none
    lockFailed,
    \* a call of setup_pwm (src/bbbio.c:282): position, the arguments, the
    \* state of the files it looks at, its return value, the writes it made
    pwm_pc, pin_identifier, frequency, duty_percent, pwm_fs,
    pwm_result, pwm_writes,
    \* calls of setup_gpio_pin (src/bbbio.c:94): what the kernel and the
    \* file permissions allow, the pins exported, the direction of each pin,
    \* and (history) the calls made so far
    gpio_fs, gpio_exported, gpio_direction, gpio_calls,
    \* timer thread: the time on the clock since the timestamp in last_time
    \* (what lines 139-140 would compute now)
    since_last,
    \* history: the time since the clock read of the latest tick; the time
    \* between the clock reads of this tick and of the tick before;
    \* current_time when this tick entered its critical section
    since_tick, tick_delta, time_before,
    \* history: the branch this tick took and the branch the tick before took
    this_branch, prev_branch,
    \* history: the idle ticks in a row just before this tick, and the time
    \* that passed over them
    idle_ticks, idle_time,
    \* history: current_time and stopwatch_running at the moment the display
    \* released the mutex (line 102)
    snap_time, snap_running,
    \* the line on the console: the value printed and the number of fractional
    \* digits (0 while nothing has been printed); history: stopwatch_running
    \* at the moment of the printf
    shown_time, shown_digits, running_at_render,
    \* the scheduler: the workers inside usleep, and the workers blocked in
    \* pthread_mutex_lock
    asleep, waiting

coreVars == << current_time, stopwatch_running, reset_requested, mutex,
           bpc, start_stop_prev, start_stop_current, reset_prev, reset_current, state,
           dpc, time_to_display, is_running,
           tpc, elapsed_time,
           red_led, green_led, hpc, hctx, exit_code,
           lastLevel, nEdges, nFlips, tEntryReset, tickSetReset,
           redOffWrites, greenOffWrites >>

sharedVars == << current_time, stopwatch_running, reset_requested >>
buttonVars == << bpc, start_stop_prev, start_stop_current, reset_prev, reset_current, state >>
displayVars == << dpc, time_to_display, is_running >>
timerVars == << tpc, elapsed_time >>
ledVars == << red_led, green_led >>
handlerVars == << hpc, hctx, exit_code, redOffWrites, greenOffWrites >>
edgeHist == << lastLevel, nEdges, nFlips >>
startupVars == << mpc, created, input, pins_configured, ret,
                  min_priority, max_priority,
                  button_priority, timer_priority, display_priority >>
failVars == << lockFailed >>
pwmVars == << pwm_pc, pin_identifier, frequency, duty_percent, pwm_fs,
             pwm_result, pwm_writes >>
gpioVars == << gpio_fs, gpio_exported, gpio_direction, gpio_calls >>
libVars == << pwmVars, gpioVars >>
clockVars == << since_last, since_tick, tick_delta, time_before,
               this_branch, prev_branch, idle_ticks, idle_time >>
renderVars == << snap_time, snap_running, shown_time, shown_digits,
                running_at_render >>
schedVars == << asleep, waiting >>
auxVars == << startupVars, failVars, libVars, clockVars, renderVars,
             schedVars >>
vars == << coreVars, auxVars >>

(***************************************************************************)
(* Scheduling: a thread runs while the process lives and no signal handler *)
(* runs on its stack (cleanup never returns, so the interrupted thread     *)
(* never resumes).                                                         *)
(***************************************************************************)
Running == exit_code = -1
CanRun(t) == Running /\ hctx # t

(***************************************************************************)
(* pthread_mutex_lock / pthread_mutex_unlock as called by lockMutex and    *)
(* unlockMutex.  The mutex is of the default (normal) type: a thread that  *)
(* asks for a mutex held by anyone, itself included, waits.                *)
(***************************************************************************)
lockMutex(t) == mutex = NoOwner /\ mutex' = t
unlockMutex(t) == mutex = t /\ mutex' = NoOwner

\* the three workers at the top of their loops, the shared state as
\* initialised at lines 12-14, no signal received
WorkersInit ==
    /\ current_time = 0 /\ stopwatch_running = 0 /\ reset_requested = 0
    /\ mutex = NoOwner
    /\ bpc = "read" /\ start_stop_prev = 0 /\ start_stop_current = 0
    /\ reset_prev = 0 /\ reset_current = 0 /\ state = 0
    /\ dpc = "lock" /\ time_to_display = 0 /\ is_running = 0
    /\ tpc = "clock" /\ elapsed_time = 0
    /\ hpc = "idle" /\ hctx = "none" /\ exit_code = -1
    /\ lastLevel = 0 /\ nEdges = 0 /\ nFlips = 0
    /\ tEntryReset = 0 /\ tickSetReset = 0 /\ redOffWrites = 0 /\ greenOffWrites = 0
    /\ lockFailed = "none"
    /\ since_last = 0 /\ since_tick = 0 /\ tick_delta = 0 /\ time_before = 0
    /\ this_branch = "none" /\ prev_branch = "none"
    /\ idle_ticks = 0 /\ idle_time = 0
    /\ snap_time = 0 /\ snap_running = 0
    /\ shown_time = 0 /\ shown_digits = 0 /\ running_at_render = 0
    /\ asleep = {} /\ waiting = {}

\* no call of setup_pwm is under way
PwmIdle ==
    /\ pwm_pc = "unused"
    /\ pin_identifier = << "1", "A" >> /\ frequency = 0 /\ duty_percent = 0
    /\ pwm_fs = [null_exists |-> FALSE, exported |-> {},
                 state_writable |-> FALSE, export_writable |-> FALSE]
    /\ pwm_result = 0 /\ pwm_writes = << >>

\* no call of setup_gpio_pin is followed
GpioIdle ==
    /\ gpio_fs = [valid_pins |-> {}, export_writable |-> FALSE]
    /\ gpio_exported = {} /\ gpio_direction = << >> /\ gpio_calls = << >>

\* the calls of bbbio.c are followed in specifications of their own
LibraryIdle == PwmIdle /\ GpioIdle

\* the names of the four pins, in the order main configures them
PinNames == << "start_stop", "reset", "red", "green" >>
AllPins == { PinNames[i] : i \in 1..Len(PinNames) }

\* main of src/src/stopwatch.c has reached the joins (line 320) on a Linux
\* target, whose SCHED_FIFO range is 1..99
Started ==
    /\ mpc = "join" /\ created = Workers
    /\ input = "ok" /\ pins_configured = AllPins /\ ret = 0
    /\ min_priority = 1 /\ max_priority = 99
    /\ button_priority = 99 /\ timer_priority = 89 /\ display_priority = 51

Init ==
    /\ WorkersInit /\ LibraryIdle
    /\ red_led = GPIO_ON /\ green_led = GPIO_OFF
    /\ Started

(***************************************************************************)
(* Button thread, button_thread_func (src/src/stopwatch.c:45-91).          *)
(***************************************************************************)
\* mutant of RisingEdge: any non-zero reading counts as pressed
RisingEdge_nonzero(current, prev) == current # 0 /\ prev = 0

\* a rising edge: the current reading is 1 and the previous one was 0
RisingEdge(current, prev) == current = 1 /\ prev = 0

\* the if / else if / else of lines 56-80: where the tick goes after sampling
ButtonBranch(ss_current, ss_prev, rs_current, rs_prev) ==
    IF RisingEdge(ss_current, ss_prev) THEN "ss_lock"
    ELSE IF RisingEdge(rs_current, rs_prev) THEN "rs_lock"
    ELSE "update"

\* lines 53-54 (after the usleep of line 86 has returned): sample both pins
b_read ==
    /\ CanRun("button") /\ bpc \in {"read", "sleep"}
    /\ \E ss \in Levels, rs \in Levels :
        /\ (lastLevel = 0 /\ ss = 1) => nEdges < MaxEdges
        /\ start_stop_current' = ss
        /\ reset_current' = rs
        /\ nEdges' = IF lastLevel = 0 /\ ss = 1 THEN nEdges + 1 ELSE nEdges
        /\ lastLevel' = ss
        /\ bpc' = ButtonBranch(ss, start_stop_prev, rs, reset_prev)
    /\ tickSetReset' = 0
    /\ UNCHANGED << sharedVars, mutex, start_stop_prev, reset_prev, state,
                    displayVars, timerVars, ledVars, handlerVars, nFlips,
                    tEntryReset,
                    auxVars >>

\* line 57
b_ss_lock ==
    /\ CanRun("button") /\ bpc = "ss_lock"
    /\ lockMutex("button")
    /\ bpc' = "ss_flip"
    /\ UNCHANGED << sharedVars, start_stop_prev, start_stop_current, reset_prev,
                    reset_current, state, displayVars, timerVars, ledVars,
                    handlerVars, edgeHist, tEntryReset, tickSetReset,
                    auxVars >>

\* lines 59-60
b_ss_flip ==
    /\ CanRun("button") /\ bpc = "ss_flip"
    /\ stopwatch_running' = 1 - stopwatch_running
    /\ state' = stopwatch_running'
    /\ nFlips' = nFlips + 1
    /\ bpc' = "ss_unlock"
    /\ UNCHANGED << current_time, reset_requested, mutex, start_stop_prev,
                    start_stop_current, reset_prev, reset_current, displayVars,
                    timerVars, ledVars, handlerVars, lastLevel, nEdges, tEntryReset, tickSetReset,
                    auxVars >>

\* line 61
b_ss_unlock ==
    /\ CanRun("button") /\ bpc = "ss_unlock"
    /\ unlockMutex("button")
    /\ bpc' = "led_red"
    /\ UNCHANGED << sharedVars, start_stop_prev, start_stop_current, reset_prev,
                    reset_current, state, displayVars, timerVars, ledVars,
                    handlerVars, edgeHist, tEntryReset, tickSetReset,
                    auxVars >>

\* lines 65 and 68: the write of the red LED
b_led_red ==
    /\ CanRun("button") /\ bpc = "led_red"
    /\ red_led' = IF state = 1 THEN GPIO_OFF ELSE GPIO_ON
    /\ bpc' = "led_green"
    /\ UNCHANGED << sharedVars, mutex, start_stop_prev, start_stop_current,
                    reset_prev, reset_current, state, displayVars, timerVars,
                    green_led, handlerVars, edgeHist, tEntryReset, tickSetReset,
                    auxVars >>

\* mutant of b_led_green: the two branches write the same green level
b_led_green_always_off ==
    /\ CanRun("button") /\ bpc = "led_green"
    /\ green_led' = GPIO_OFF
    /\ bpc' = "update"
    /\ UNCHANGED << sharedVars, mutex, start_stop_prev, start_stop_current,
                    reset_prev, reset_current, state, displayVars, timerVars,
                    red_led, handlerVars, edgeHist, tEntryReset, tickSetReset,
                    auxVars >>

\* lines 66 and 69: the write of the green LED
b_led_green ==
    /\ CanRun("button") /\ bpc = "led_green"
    /\ green_led' = IF state = 1 THEN GPIO_ON ELSE GPIO_OFF
    /\ bpc' = "update"
    /\ UNCHANGED << sharedVars, mutex, start_stop_prev, start_stop_current,
                    reset_prev, reset_current, state, displayVars, timerVars,
                    red_led, handlerVars, edgeHist, tEntryReset, tickSetReset,
                    auxVars >>

\* mutant of b_rs_lock: the reset branch goes on without the mutex
b_rs_lock_skipped ==
    /\ CanRun("button") /\ bpc = "rs_lock"
    /\ bpc' = "rs_set"
    /\ UNCHANGED << sharedVars, mutex, start_stop_prev, start_stop_current,
                    reset_prev, reset_current, state, displayVars, timerVars,
                    ledVars, handlerVars, edgeHist, tEntryReset, tickSetReset,
                    auxVars >>

\* line 75
b_rs_lock ==
    /\ CanRun("button") /\ bpc = "rs_lock"
    /\ lockMutex("button")
    /\ bpc' = "rs_set"
    /\ UNCHANGED << sharedVars, start_stop_prev, start_stop_current, reset_prev,
                    reset_current, state, displayVars, timerVars, ledVars,
                    handlerVars, edgeHist, tEntryReset, tickSetReset,
                    auxVars >>

\* mutant of b_rs_set: the button thread zeroes the timer itself
b_rs_set_zeroes_time ==
    /\ CanRun("button") /\ bpc = "rs_set"
    /\ reset_requested' = 1
    /\ current_time' = 0
    /\ tickSetReset' = 1
    /\ bpc' = "rs_unlock"
    /\ UNCHANGED << stopwatch_running, mutex, start_stop_prev,
                    start_stop_current, reset_prev, reset_current, state,
                    displayVars, timerVars, ledVars, handlerVars, edgeHist,
                    tEntryReset,
                    auxVars >>

\* line 76
b_rs_set ==
    /\ CanRun("button") /\ bpc = "rs_set"
    /\ reset_requested' = 1
    /\ tickSetReset' = 1
    /\ bpc' = "rs_unlock"
    /\ UNCHANGED << current_time, stopwatch_running, mutex, start_stop_prev,
                    start_stop_current, reset_prev, reset_current, state,
                    displayVars, timerVars, ledVars, handlerVars, edgeHist,
                    tEntryReset,
                    auxVars >>

\* line 77
b_rs_unlock ==
    /\ CanRun("button") /\ bpc = "rs_unlock"
    /\ unlockMutex("button")
    /\ bpc' = "update"
    /\ UNCHANGED << sharedVars, start_stop_prev, start_stop_current, reset_prev,
                    reset_current, state, displayVars, timerVars, ledVars,
                    handlerVars, edgeHist, tEntryReset, tickSetReset,
                    auxVars >>

\* mutant of b_update: the start/stop level is not recorded
b_update_keeps_prev ==
    /\ CanRun("button") /\ bpc = "update"
    /\ reset_prev' = reset_current
    /\ bpc' = "sleep"
    /\ UNCHANGED << sharedVars, mutex, start_stop_prev, start_stop_current,
                    reset_current, state, displayVars, timerVars, ledVars,
                    handlerVars, edgeHist, tEntryReset, tickSetReset,
                    auxVars >>

\* lines 83-86: record the levels, then sleep
b_update ==
    /\ CanRun("button") /\ bpc = "update"
    /\ start_stop_prev' = start_stop_current
    /\ reset_prev' = reset_current
    /\ bpc' = "sleep"
    /\ UNCHANGED << sharedVars, mutex, start_stop_current, reset_current, state,
                    displayVars, timerVars, ledVars, handlerVars, edgeHist,
                    tEntryReset, tickSetReset,
                    auxVars >>

(***************************************************************************)
(* Display thread, display_thread_func (src/src/stopwatch.c:94-123).       *)
(***************************************************************************)
\* line 99
d_lock ==
    /\ CanRun("display") /\ dpc = "lock"
    /\ lockMutex("display")
    /\ dpc' = "copy_time"
    /\ UNCHANGED << sharedVars, buttonVars, time_to_display, is_running,
                    timerVars, ledVars, handlerVars, edgeHist, tEntryReset, tickSetReset,
                    auxVars >>

\* line 100
d_copy_time ==
    /\ CanRun("display") /\ dpc = "copy_time"
    /\ time_to_display' = current_time
    /\ dpc' = "copy_running"
    /\ UNCHANGED << sharedVars, mutex, buttonVars, is_running, timerVars,
                    ledVars, handlerVars, edgeHist, tEntryReset, tickSetReset,
                    auxVars >>

\* line 101
d_copy_running ==
    /\ CanRun("display") /\ dpc = "copy_running"
    /\ is_running' = stopwatch_running
    /\ dpc' = "unlock"
    /\ UNCHANGED << sharedVars, mutex, buttonVars, time_to_display, timerVars,
                    ledVars, handlerVars, edgeHist, tEntryReset, tickSetReset,
                    auxVars >>

\* line 102
d_unlock ==
    /\ CanRun("display") /\ dpc = "unlock"
    /\ unlockMutex("display")
    /\ dpc' = "print"
    /\ UNCHANGED << sharedVars, buttonVars, time_to_display, is_running,
                    timerVars, ledVars, handlerVars, edgeHist, tEntryReset, tickSetReset,
                    auxVars >>

\* lines 105-119: render, flush, sleep.  The two locals are overwritten by
\* lines 100-101 before the next tick reads them: the model forgets them here
d_print ==
    /\ CanRun("display") /\ dpc = "print"
    /\ time_to_display' = 0 /\ is_running' = 0
    /\ dpc' = "lock"
    /\ UNCHANGED << sharedVars, mutex, buttonVars,
                    timerVars, ledVars, handlerVars, edgeHist, tEntryReset, tickSetReset,
                    auxVars >>

(***************************************************************************)
(* Timer thread, timer_thread_func (src/src/stopwatch.c:126-171).          *)
(***************************************************************************)
\* mutant of TimerBranch: a stopped stopwatch accumulates too
TimerBranch_never_idle(reset, running) ==
    IF reset = 1 THEN "reset" ELSE "run"

\* mutant of TimerBranch: accumulation is tested before the reset
TimerBranch_run_first(reset, running) ==
    IF running = 1 THEN "run"
    ELSE IF reset = 1 THEN "reset"
    ELSE "idle"

\* the if / else if / else of lines 148-164
TimerBranch(reset, running) ==
    IF reset = 1 THEN "reset"
    ELSE IF running = 1 THEN "run"
    ELSE "idle"

\* mutant of Accumulate: the sum is compared after the addition and wraps
\* as soon as it reaches the maximum
Accumulate_wraps_at_max(time, delta) ==
    IF time + delta >= MaxTime THEN 0 ELSE time + delta

\* lines 153-158: add the delta unless the sum passes the maximum
Accumulate(time, delta) ==
    IF time + delta <= MaxTime THEN time + delta ELSE 0

\* lines 136-143 (after usleep has returned): the delta since the last tick;
\* last_time is replaced by the current timestamp, so the delta of a tick is
\* the time the clock advanced since the previous tick
t_clock ==
    /\ CanRun("timer") /\ tpc = "clock"
    /\ \E delta \in 0..MaxDelta : elapsed_time' = delta
    /\ tpc' = "lock"
    /\ UNCHANGED << sharedVars, mutex, buttonVars, displayVars, ledVars,
                    handlerVars, edgeHist, tEntryReset, tickSetReset,
                    auxVars >>

\* line 145
t_lock ==
    /\ CanRun("timer") /\ tpc = "lock"
    /\ lockMutex("timer")
    /\ tEntryReset' = reset_requested
    /\ tpc' = "body"
    /\ UNCHANGED << sharedVars, buttonVars, displayVars, elapsed_time, ledVars,
                    handlerVars, edgeHist, tickSetReset,
                    auxVars >>

\* lines 148, 152-159, 160: choose the branch; the running branch adds the delta
t_body ==
    /\ CanRun("timer") /\ tpc = "body"
    /\ LET branch == TimerBranch(reset_requested, stopwatch_running) IN
        /\ tpc' = CASE branch = "reset" -> "reset_time"
                    [] branch = "run" -> "unlock"
                    [] OTHER -> "unlock_idle"
        /\ current_time' = IF branch = "run"
                           THEN Accumulate(current_time, elapsed_time)
                           ELSE current_time
    /\ UNCHANGED << stopwatch_running, reset_requested, mutex, buttonVars,
                    displayVars, elapsed_time, ledVars, handlerVars, edgeHist,
                    tEntryReset, tickSetReset,
                    auxVars >>

\* mutant of t_reset_time: the tick that resets also adds its delta
t_reset_time_accumulates ==
    /\ CanRun("timer") /\ tpc = "reset_time"
    /\ current_time' = Accumulate(0, elapsed_time)
    /\ tpc' = "reset_flag"
    /\ UNCHANGED << stopwatch_running, reset_requested, mutex, buttonVars,
                    displayVars, elapsed_time, ledVars, handlerVars, edgeHist,
                    tEntryReset, tickSetReset,
                    auxVars >>

\* line 149
t_reset_time ==
    /\ CanRun("timer") /\ tpc = "reset_time"
    /\ current_time' = 0
    /\ tpc' = "reset_flag"
    /\ UNCHANGED << stopwatch_running, reset_requested, mutex, buttonVars,
                    displayVars, elapsed_time, ledVars, handlerVars, edgeHist,
                    tEntryReset, tickSetReset,
                    auxVars >>

\* mutant of t_reset_flag: consuming the reset also stops the stopwatch
t_reset_flag_stops ==
    /\ CanRun("timer") /\ tpc = "reset_flag"
    /\ reset_requested' = 0
    /\ stopwatch_running' = 0
    /\ tpc' = "unlock"
    /\ UNCHANGED << current_time, mutex, buttonVars, displayVars, elapsed_time,
                    ledVars, handlerVars, edgeHist, tEntryReset, tickSetReset,
                    auxVars >>

\* line 150
t_reset_flag ==
    /\ CanRun("timer") /\ tpc = "reset_flag"
    /\ reset_requested' = 0
    /\ tpc' = "unlock"
    /\ UNCHANGED << current_time, stopwatch_running, mutex, buttonVars,
                    displayVars, elapsed_time, ledVars, handlerVars, edgeHist,
                    tEntryReset, tickSetReset,
                    auxVars >>

\* lines 166-167: release, sleep.  elapsed_time is overwritten by line 139
\* before the next tick reads it: the model forgets it here
t_unlock ==
    /\ CanRun("timer") /\ tpc = "unlock"
    /\ unlockMutex("timer")
    /\ tEntryReset' = 0
    /\ elapsed_time' = 0
    /\ tpc' = "clock"
    /\ UNCHANGED << sharedVars, buttonVars, displayVars, ledVars,
                    handlerVars, edgeHist, tickSetReset,
                    auxVars >>

\* mutant of t_unlock_idle: the idle branch sleeps without releasing
t_unlock_idle_keeps_mutex ==
    /\ CanRun("timer") /\ tpc = "unlock_idle"
    /\ tEntryReset' = 0
    /\ elapsed_time' = 0
    /\ tpc' = "clock"
    /\ UNCHANGED << sharedVars, mutex, buttonVars, displayVars, ledVars,
                    handlerVars, edgeHist, tickSetReset,
                    auxVars >>

\* lines 161-163: the idle branch releases, sleeps and continues
t_unlock_idle ==
    /\ CanRun("timer") /\ tpc = "unlock_idle"
    /\ unlockMutex("timer")
    /\ tEntryReset' = 0
    /\ elapsed_time' = 0
    /\ tpc' = "clock"
    /\ UNCHANGED << sharedVars, buttonVars, displayVars, ledVars,
                    handlerVars, edgeHist, tickSetReset,
                    auxVars >>

(***************************************************************************)
(* Termination: main installs cleanup for SIGINT, SIGTSTP, SIGTERM and     *)
(* SIGQUIT (src/src/stopwatch.c:245-248); the kernel runs the handler on   *)
(* the stack of any thread of the process.                                 *)
(***************************************************************************)
\* a termination signal is delivered to thread t
Signal(t) ==
    /\ Running /\ hpc = "idle"
    /\ hpc' = "lock" /\ hctx' = t
    /\ UNCHANGED << sharedVars, mutex, buttonVars, displayVars, timerVars,
                    ledVars, exit_code, redOffWrites, greenOffWrites, edgeHist,
                    tEntryReset, tickSetReset,
                    auxVars >>

\* cleanup, line 231
h_lock ==
    /\ Running /\ hpc = "lock"
    /\ lockMutex(hctx)
    /\ hpc' = "red"
    /\ UNCHANGED << sharedVars, buttonVars, displayVars, timerVars, ledVars,
                    hctx, exit_code, redOffWrites, greenOffWrites, edgeHist,
                    tEntryReset, tickSetReset,
                    auxVars >>

\* cleanup, line 232
h_red ==
    /\ Running /\ hpc = "red"
    /\ red_led' = GPIO_OFF
    /\ redOffWrites' = redOffWrites + 1
    /\ hpc' = "green"
    /\ UNCHANGED << sharedVars, mutex, buttonVars, displayVars, timerVars,
                    green_led, hctx, exit_code, greenOffWrites, edgeHist,
                    tEntryReset, tickSetReset,
                    auxVars >>

\* mutant of h_green: cleanup leaves the green LED alone
h_green_skipped ==
    /\ Running /\ hpc = "green"
    /\ hpc' = "destroy"
    /\ UNCHANGED << sharedVars, mutex, buttonVars, displayVars, timerVars,
                    ledVars, hctx, exit_code, redOffWrites, greenOffWrites,
                    edgeHist, tEntryReset, tickSetReset,
                    auxVars >>

\* cleanup, line 233
h_green ==
    /\ Running /\ hpc = "green"
    /\ green_led' = GPIO_OFF
    /\ greenOffWrites' = greenOffWrites + 1
    /\ hpc' = "destroy"
    /\ UNCHANGED << sharedVars, mutex, buttonVars, displayVars, timerVars,
                    red_led, hctx, exit_code, redOffWrites, edgeHist,
                    tEntryReset, tickSetReset,
                    auxVars >>

\* cleanup, line 236
h_destroy ==
    /\ Running /\ hpc = "destroy"
    /\ hpc' = "exit"
    /\ UNCHANGED << sharedVars, mutex, buttonVars, displayVars, timerVars,
                    ledVars, hctx, exit_code, redOffWrites, greenOffWrites,
                    edgeHist, tEntryReset, tickSetReset,
                    auxVars >>

\* cleanup, lines 238-239
h_exit ==
    /\ Running /\ hpc = "exit"
    /\ exit_code' = 0
    /\ hpc' = "done"
    /\ UNCHANGED << sharedVars, mutex, buttonVars, displayVars, timerVars,
                    ledVars, hctx, redOffWrites, greenOffWrites, edgeHist,
                    tEntryReset, tickSetReset,
                    auxVars >>

button_thread_func ==
    \/ b_read \/ b_ss_lock \/ b_ss_flip \/ b_ss_unlock \/ b_led_red
    \/ b_led_green \/ b_rs_lock \/ b_rs_set \/ b_rs_unlock \/ b_update

display_thread_func ==
    \/ d_lock \/ d_copy_time \/ d_copy_running \/ d_unlock \/ d_print

timer_thread_func ==
    \/ t_clock \/ t_lock \/ t_body \/ t_reset_time \/ t_reset_flag
    \/ t_unlock \/ t_unlock_idle

cleanup ==
    \/ h_lock \/ h_red \/ h_green \/ h_destroy \/ h_exit

Next ==
    \/ button_thread_func
    \/ display_thread_func
    \/ timer_thread_func
    \/ \E t \in Threads : Signal(t)
    \/ cleanup

Spec == Init /\ [][Next]_vars

(***************************************************************************)
(* Startup: main of src/src/stopwatch.c, lines 243-322.  check             *)
(* (lines 222-227) ends the process with exit(1) when a call reports a     *)
(* non-zero result.  The outcome of every library call, the line read from *)
(* stdin, the SCHED_FIFO range and the result of configuring each pin are  *)
(* inputs.  A termination signal may arrive once the handlers are          *)
(* installed; cleanup then runs on the stack of main or of a created       *)
(* thread.  The steps of a created worker are those of Spec and are not    *)
(* repeated here.                                                          *)
(***************************************************************************)
\* the smallest value of sched_get_priority_min the model draws is 0, the
\* largest is MaxPrioMin
MaxPrioMin == 1
\* the largest max - min the model draws (98 is the span of Linux, 1..99)
MaxPrioSpan == 98
\* POSIX: a conforming SCHED_FIFO has at least 32 priorities
PosixMinSpan == 32 - 1
PriorityRanges ==
    { << mn, mn + sp >> : mn \in 0..MaxPrioMin, sp \in PosixMinSpan..MaxPrioSpan }

\* pthread_attr_setschedparam accepts a priority inside the range of the policy
PriorityValid(p) == min_priority <= p /\ p <= max_priority

\* check(result, msg), lines 222-227: exit(1) unless result is 0
check(result, next) ==
    IF result # 0
    THEN exit_code' = 1 /\ mpc' = "exited"
    ELSE exit_code' = exit_code /\ mpc' = next

InitStartup ==
    /\ WorkersInit /\ LibraryIdle
    /\ red_led = GPIO_OFF /\ green_led = GPIO_OFF
    /\ mpc = "signal" /\ created = {}
    /\ input = "unread" /\ pins_configured = {} /\ ret = -1
    /\ min_priority = 0 /\ max_priority = 0
    /\ button_priority = 0 /\ timer_priority = 0 /\ display_priority = 0

\* what a step of main leaves alone besides exit_code
mainFrame == << sharedVars, mutex, buttonVars, displayVars, timerVars,
                hpc, hctx, redOffWrites, greenOffWrites, edgeHist,
                tEntryReset, tickSetReset, failVars, libVars, clockVars,
                renderVars, schedVars >>

\* lines 245-248
m_signal ==
    /\ CanRun("main") /\ mpc = "signal"
    /\ mpc' = "attr"
    /\ UNCHANGED << mainFrame, ledVars, exit_code, created, input,
                    pins_configured, ret, min_priority, max_priority,
                    button_priority, timer_priority, display_priority >>

\* lines 257-264: the six attribute calls, each checked
m_attr ==
    /\ CanRun("main") /\ mpc = "attr"
    /\ \E result \in {0, 1} : check(result, "range")
    /\ UNCHANGED << mainFrame, ledVars, created, input,
                    pins_configured, ret, min_priority, max_priority,
                    button_priority, timer_priority, display_priority >>

\* lines 268-273
m_range ==
    /\ CanRun("main") /\ mpc = "range"
    /\ \E r \in PriorityRanges \cup { << -1, -1 >> } :
        /\ min_priority' = r[1] /\ max_priority' = r[2]
        /\ IF r[1] = -1 \/ r[2] = -1
           THEN exit_code' = 1 /\ mpc' = "exited"
           ELSE exit_code' = exit_code /\ mpc' = "priorities"
    /\ UNCHANGED << mainFrame, ledVars, created, input,
                    pins_configured, ret,
                    button_priority, timer_priority, display_priority >>

\* lines 276-278
m_priorities ==
    /\ CanRun("main") /\ mpc = "priorities"
    /\ button_priority' = max_priority
    /\ timer_priority' = max_priority - 10
    /\ display_priority' = min_priority + 50
    /\ mpc' = "setschedparam"
    /\ UNCHANGED << mainFrame, ledVars, exit_code, created, input,
                    pins_configured, ret, min_priority, max_priority >>

\* lines 287-294
m_setschedparam ==
    /\ CanRun("main") /\ mpc = "setschedparam"
    /\ IF /\ PriorityValid(button_priority)
          /\ PriorityValid(display_priority)
          /\ PriorityValid(timer_priority)
       THEN check(0, "mutex")
       ELSE check(1, "mutex")
    /\ UNCHANGED << mainFrame, ledVars, created, input,
                    pins_configured, ret, min_priority, max_priority,
                    button_priority, timer_priority, display_priority >>

\* lines 297-310: setinheritsched and the initialisation of the mutex
m_mutex ==
    /\ CanRun("main") /\ mpc = "mutex"
    /\ \E result \in {0, 1} : check(result, "input")
    /\ UNCHANGED << mainFrame, ledVars, created, input,
                    pins_configured, ret, min_priority, max_priority,
                    button_priority, timer_priority, display_priority >>

\* get_input_and_initialize_gpio, lines 183-198: a line is read and holds
\* four integers, or not
m_input ==
    /\ CanRun("main") /\ mpc = "input"
    /\ \E in \in {"ok", "bad"} :
        /\ input' = in
        /\ ret' = IF in = "ok" THEN 0 ELSE -1
        /\ mpc' = IF in = "ok" THEN "pins" ELSE "check"
    /\ UNCHANGED << mainFrame, ledVars, exit_code, created,
                    pins_configured, min_priority, max_priority,
                    button_priority, timer_priority, display_priority >>

\* lines 200-207, 213-216: the next setup_gpio_pin of the && chain
m_pin ==
    /\ CanRun("main") /\ mpc = "pins"
    /\ LET pin == PinNames[Cardinality(pins_configured) + 1] IN
       \E result \in {0, 1} :
        IF result = 1
        THEN /\ pins_configured' = pins_configured \cup {pin}
             /\ mpc' = IF pins_configured' = AllPins THEN "leds" ELSE "pins"
             /\ ret' = ret
        ELSE /\ ret' = -1
             /\ mpc' = "check"
             /\ pins_configured' = pins_configured
    /\ UNCHANGED << mainFrame, ledVars, exit_code, created, input,
                    min_priority, max_priority,
                    button_priority, timer_priority, display_priority >>

\* lines 209-211
m_leds ==
    /\ CanRun("main") /\ mpc = "leds"
    /\ red_led' = GPIO_ON /\ green_led' = GPIO_OFF
    /\ ret' = 0
    /\ mpc' = "check"
    /\ UNCHANGED << mainFrame, exit_code, created, input,
                    pins_configured, min_priority, max_priority,
                    button_priority, timer_priority, display_priority >>

\* line 312
m_check_gpio ==
    /\ CanRun("main") /\ mpc = "check"
    /\ check(ret, "create_button")
    /\ UNCHANGED << mainFrame, ledVars, created, input,
                    pins_configured, ret, min_priority, max_priority,
                    button_priority, timer_priority, display_priority >>

\* lines 315-317: pthread_create of worker t, checked
m_create(t, at, next) ==
    /\ CanRun("main") /\ mpc = at
    /\ \E result \in {0, 1} :
        /\ check(result, next)
        /\ created' = IF result = 0 THEN created \cup {t} ELSE created
    /\ UNCHANGED << mainFrame, ledVars, input,
                    pins_configured, ret, min_priority, max_priority,
                    button_priority, timer_priority, display_priority >>

m_create_button == m_create("button", "create_button", "create_display")
m_create_display == m_create("display", "create_display", "create_timer")
m_create_timer == m_create("timer", "create_timer", "join")

\* a termination signal arrives after line 248, on main or a created thread
m_deliver(t) ==
    /\ mpc # "signal"
    /\ t \in created \cup {"main"}
    /\ Signal(t)

main ==
    \/ m_signal \/ m_attr \/ m_range \/ m_priorities \/ m_setschedparam
    \/ m_mutex \/ m_input \/ m_pin \/ m_leds \/ m_check_gpio
    \/ m_create_button \/ m_create_display \/ m_create_timer

NextStartup ==
    \/ main
    \/ \E t \in Threads : m_deliver(t)
    \/ cleanup

SpecStartup == InitStartup /\ [][NextStartup]_vars

(***************************************************************************)
(* Startup of the fixed-pin driver: main of src/stopwatch.c, lines 39-83.  *)
(* No result of a library call is looked at.  The SCHED_FIFO range of the  *)
(* platform is an input: pthread_attr_setschedparam leaves the attribute   *)
(* at its default priority 0 when the priority is outside the range, and   *)
(* pthread_create then refuses the attribute.  SIGINT has its default      *)
(* disposition until line 74 and ends the process; afterwards it runs      *)
(* cleanup (lines 263-273), which takes no lock.  The steps of the created *)
(* workers are not followed.                                               *)
(***************************************************************************)
BUTTON_THREAD_PRIORITY == 90
DISPLAY_THREAD_PRIORITY == 80
TIMER_THREAD_PRIORITY == 70

InitFixed ==
    /\ WorkersInit /\ LibraryIdle
    /\ red_led = GPIO_OFF /\ green_led = GPIO_OFF
    /\ mpc = "mutex" /\ created = {}
    /\ input = "fixed" /\ pins_configured = {} /\ ret = 0
    /\ \E r \in PriorityRanges : min_priority = r[1] /\ max_priority = r[2]
    /\ button_priority = 0 /\ timer_priority = 0 /\ display_priority = 0

\* src/stopwatch.c:44
f_mutex_init ==
    /\ CanRun("main") /\ mpc = "mutex"
    /\ mpc' = "pin1"
    /\ UNCHANGED << mainFrame, ledVars, exit_code, created, input,
                    pins_configured, ret, min_priority, max_priority,
                    button_priority, timer_priority, display_priority >>

PinPc == << "pin1", "pin2", "pin3", "pin4", "leds" >>

\* gpio_setup, src/stopwatch.c:224-240: the i-th setup_gpio_pin, unchecked
f_pin(i) ==
    /\ CanRun("main") /\ mpc = PinPc[i]
    /\ \E result \in {0, 1} :
        pins_configured' = IF result = 1
                           THEN pins_configured \cup {PinNames[i]}
                           ELSE pins_configured
    /\ mpc' = PinPc[i + 1]
    /\ UNCHANGED << mainFrame, ledVars, exit_code, created, input, ret,
                    min_priority, max_priority,
                    button_priority, timer_priority, display_priority >>

\* src/stopwatch.c:48-49
f_leds ==
    /\ CanRun("main") /\ mpc = "leds"
    /\ red_led' = GPIO_ON /\ green_led' = GPIO_OFF
    /\ mpc' = "attr"
    /\ UNCHANGED << mainFrame, exit_code, created, input,
                    pins_configured, ret, min_priority, max_priority,
                    button_priority, timer_priority, display_priority >>

\* the priority an attribute holds after pthread_attr_setschedparam(p)
AttrPriority(p) == IF PriorityValid(p) THEN p ELSE 0

\* src/stopwatch.c:51-67
f_attr ==
    /\ CanRun("main") /\ mpc = "attr"
    /\ button_priority' = AttrPriority(BUTTON_THREAD_PRIORITY)
    /\ display_priority' = AttrPriority(DISPLAY_THREAD_PRIORITY)
    /\ timer_priority' = AttrPriority(TIMER_THREAD_PRIORITY)
    /\ mpc' = "create_button"
    /\ UNCHANGED << mainFrame, ledVars, exit_code, created, input,
                    pins_configured, ret, min_priority, max_priority >>

\* src/stopwatch.c:69-71: pthread_create of worker t with priority p, unchecked
f_create(t, p, at, next) ==
    /\ CanRun("main") /\ mpc = at
    /\ \E result \in {0, 1} :
        /\ result = 0 => PriorityValid(p)
        /\ created' = IF result = 0 THEN created \cup {t} ELSE created
    /\ mpc' = next
    /\ UNCHANGED << mainFrame, ledVars, exit_code, input,
                    pins_configured, ret, min_priority, max_priority,
                    button_priority, timer_priority, display_priority >>

f_create_button ==
    f_create("button", button_priority, "create_button", "create_display")
f_create_display ==
    f_create("display", display_priority, "create_display", "create_timer")
f_create_timer ==
    f_create("timer", timer_priority, "create_timer", "signal")

\* src/stopwatch.c:74
f_signal ==
    /\ CanRun("main") /\ mpc = "signal"
    /\ mpc' = "join_button"
    /\ UNCHANGED << mainFrame, ledVars, exit_code, created, input,
                    pins_configured, ret, min_priority, max_priority,
                    button_priority, timer_priority, display_priority >>

\* src/stopwatch.c:76-78: pthread_join of worker t.  A created worker never
\* returns and main waits for ever; the handle of a worker that was not
\* created is uninitialised, and the call then returns an error or the
\* process dies of SIGSEGV (status 128 + 11).
f_join(t, at, next) ==
    /\ CanRun("main") /\ mpc = at
    /\ t \notin created
    /\ \/ exit_code' = exit_code /\ mpc' = next
       \/ exit_code' = 128 + 11 /\ mpc' = "exited"
    /\ UNCHANGED << mainFrame, ledVars, created, input,
                    pins_configured, ret, min_priority, max_priority,
                    button_priority, timer_priority, display_priority >>

f_join_button == f_join("button", "join_button", "join_display")
f_join_display == f_join("display", "join_display", "join_timer")
f_join_timer == f_join("timer", "join_timer", "cleanup")

\* what the delivery of a signal leaves alone
signalFrame == << sharedVars, mutex, buttonVars, displayVars, timerVars,
                  ledVars, exit_code, redOffWrites, greenOffWrites, edgeHist,
                  tEntryReset, tickSetReset >>

\* src/stopwatch.c:80: main calls cleanup itself
f_cleanup ==
    /\ CanRun("main") /\ mpc = "cleanup"
    /\ hpc = "idle"
    /\ hpc' = "red" /\ hctx' = "main"
    /\ mpc' = "in_cleanup"
    /\ UNCHANGED << signalFrame, failVars, libVars, clockVars, renderVars,
                    schedVars, created, input,
                    pins_configured, ret, min_priority, max_priority,
                    button_priority, timer_priority, display_priority >>

\* main has executed line 74
HandlerInstalled ==
    mpc \in {"join_button", "join_display", "join_timer", "cleanup", "in_cleanup"}

\* SIGINT before line 74: the default action ends the process (status 128 + 2)
f_kill ==
    /\ Running /\ ~HandlerInstalled
    /\ exit_code' = 128 + 2
    /\ UNCHANGED << sharedVars, mutex, buttonVars, displayVars, timerVars,
                    ledVars, hpc, hctx, redOffWrites, greenOffWrites, edgeHist,
                    tEntryReset, tickSetReset, auxVars >>

\* SIGINT after line 74 runs cleanup on main or a created thread;
\* cleanup starts at its first LED write (src/stopwatch.c:265)
f_deliver(t) ==
    /\ Running /\ HandlerInstalled /\ hpc = "idle"
    /\ t \in created \cup {"main"}
    /\ hpc' = "red" /\ hctx' = t
    /\ UNCHANGED << signalFrame, auxVars >>

fixed_main ==
    \/ f_mutex_init \/ (\E i \in 1..Len(PinNames) : f_pin(i)) \/ f_leds
    \/ f_attr \/ f_create_button \/ f_create_display \/ f_create_timer
    \/ f_signal \/ f_join_button \/ f_join_display \/ f_join_timer
    \/ f_cleanup

\* cleanup of src/stopwatch.c, lines 263-273
fixed_cleanup ==
    \/ h_red \/ h_green \/ h_destroy \/ h_exit

NextFixed ==
    \/ fixed_main
    \/ f_kill
    \/ \E t \in Threads : f_deliver(t)
    \/ fixed_cleanup

SpecFixed == InitFixed /\ [][NextFixed]_vars

(***************************************************************************)
(* The workers of the fixed-pin driver (src/stopwatch.c:89-219) from the   *)
(* moment its main waits in pthread_join (line 76), on a Linux target.     *)
(* The button thread tests the two edges one after the other and writes    *)
(* the LEDs before it unlocks; the timer thread reads the wall clock       *)
(* (gettimeofday), which may be set back between two ticks, and compares   *)
(* the sum with the maximum after the addition.  The display thread has    *)
(* the statements of display_thread_func above and writes nothing the      *)
(* other threads read: it exists (a signal may be delivered to it) and is  *)
(* followed no further here.  No result of a lock call is looked at.       *)
(* cleanup (lines 263-273) takes no lock.                                  *)
(***************************************************************************)
InitFixedWorkers ==
    /\ WorkersInit /\ LibraryIdle
    /\ red_led = GPIO_ON /\ green_led = GPIO_OFF
    /\ mpc = "join_button" /\ created = Workers
    /\ input = "fixed" /\ pins_configured = AllPins /\ ret = 0
    /\ min_priority = 1 /\ max_priority = 99
    /\ button_priority = BUTTON_THREAD_PRIORITY
    /\ timer_priority = TIMER_THREAD_PRIORITY
    /\ display_priority = DISPLAY_THREAD_PRIORITY

\* src/stopwatch.c:119: the second if, tested whatever the first one did
FixedResetBranch(rs_current, rs_prev) ==
    IF RisingEdge(rs_current, rs_prev) THEN "rs_lock" ELSE "update"

\* src/stopwatch.c:100: the first if
FixedButtonBranch(ss_current, ss_prev, rs_current, rs_prev) ==
    IF RisingEdge(ss_current, ss_prev) THEN "ss_lock"
    ELSE FixedResetBranch(rs_current, rs_prev)

\* src/stopwatch.c:96-97 (after the usleep of line 130 has returned)
fb_read ==
    /\ CanRun("button") /\ bpc \in {"read", "sleep"}
    /\ \E ss \in Levels, rs \in Levels :
        /\ start_stop_current' = ss
        /\ reset_current' = rs
        /\ bpc' = FixedButtonBranch(ss, start_stop_prev, rs, reset_prev)
    /\ UNCHANGED << sharedVars, mutex, start_stop_prev, reset_prev, state,
                    displayVars, timerVars, ledVars, handlerVars, edgeHist,
                    tEntryReset, tickSetReset, auxVars >>

\* what a step of the button thread between its lock and unlock calls
\* leaves alone besides the shared state, the mutex and the LEDs (the
\* history of Spec is not kept here)
fixedButtonFrame == << start_stop_prev, start_stop_current, reset_prev,
                       reset_current, state, displayVars, timerVars,
                       handlerVars, edgeHist, tEntryReset, tickSetReset,
                       auxVars >>

\* src/stopwatch.c:101
fb_ss_lock ==
    /\ CanRun("button") /\ bpc = "ss_lock"
    /\ lockMutex("button")
    /\ bpc' = "ss_flip"
    /\ UNCHANGED << sharedVars, ledVars, fixedButtonFrame >>

\* src/stopwatch.c:104
fb_ss_flip ==
    /\ CanRun("button") /\ bpc = "ss_flip"
    /\ stopwatch_running' = 1 - stopwatch_running
    /\ bpc' = "led_red"
    /\ UNCHANGED << current_time, reset_requested, mutex, ledVars,
                    fixedButtonFrame >>

\* src/stopwatch.c:108 and 111: the write of the red LED, inside the lock
fb_led_red ==
    /\ CanRun("button") /\ bpc = "led_red"
    /\ red_led' = IF stopwatch_running = 1 THEN GPIO_OFF ELSE GPIO_ON
    /\ bpc' = "led_green"
    /\ UNCHANGED << sharedVars, mutex, green_led, fixedButtonFrame >>

\* src/stopwatch.c:109 and 112: the write of the green LED, inside the lock
fb_led_green ==
    /\ CanRun("button") /\ bpc = "led_green"
    /\ green_led' = IF stopwatch_running = 1 THEN GPIO_ON ELSE GPIO_OFF
    /\ bpc' = "ss_unlock"
    /\ UNCHANGED << sharedVars, mutex, red_led, fixedButtonFrame >>

\* src/stopwatch.c:115, then the test of line 119
fb_ss_unlock ==
    /\ CanRun("button") /\ bpc = "ss_unlock"
    /\ unlockMutex("button")
    /\ bpc' = FixedResetBranch(reset_current, reset_prev)
    /\ UNCHANGED << sharedVars, ledVars, fixedButtonFrame >>

\* src/stopwatch.c:120
fb_rs_lock ==
    /\ CanRun("button") /\ bpc = "rs_lock"
    /\ lockMutex("button")
    /\ bpc' = "rs_set"
    /\ UNCHANGED << sharedVars, ledVars, fixedButtonFrame >>

\* src/stopwatch.c:121
fb_rs_set ==
    /\ CanRun("button") /\ bpc = "rs_set"
    /\ reset_requested' = 1
    /\ bpc' = "rs_unlock"
    /\ UNCHANGED << current_time, stopwatch_running, mutex, ledVars,
                    fixedButtonFrame >>

\* src/stopwatch.c:122
fb_rs_unlock ==
    /\ CanRun("button") /\ bpc = "rs_unlock"
    /\ unlockMutex("button")
    /\ bpc' = "update"
    /\ UNCHANGED << sharedVars, ledVars, fixedButtonFrame >>

\* src/stopwatch.c:126-130: the statements of b_update
fb_update == b_update

fixed_button_thread_func ==
    \/ fb_read \/ fb_ss_lock \/ fb_ss_flip \/ fb_led_red \/ fb_led_green
    \/ fb_ss_unlock \/ fb_rs_lock \/ fb_rs_set \/ fb_rs_unlock \/ fb_update

\* src/stopwatch.c:204-209: add the delta, then wrap to 0 when the sum has
\* reached the maximum
AccumulateFixed(time, delta) ==
    LET sum == time + delta IN
    IF sum >= MaxTime THEN 0 ELSE sum

\* src/stopwatch.c:186-193 (after usleep has returned): the difference of two
\* readings of the wall clock, which is negative when the clock was set back
\* in between.  current_time is kept from falling below -MaxDelta.
ft_clock ==
    /\ CanRun("timer") /\ tpc = "clock"
    /\ \E delta \in (0 - MaxDelta)..MaxDelta :
        /\ current_time + delta >= 0 - MaxDelta
        /\ elapsed_time' = delta
    /\ tpc' = "lock"
    /\ UNCHANGED << sharedVars, mutex, buttonVars, displayVars, ledVars,
                    handlerVars, edgeHist, tEntryReset, tickSetReset,
                    auxVars >>

\* src/stopwatch.c:198, 203-210: choose the branch; every branch goes on to
\* the unlock of line 212
ft_body ==
    /\ CanRun("timer") /\ tpc = "body"
    /\ LET branch == TimerBranch(reset_requested, stopwatch_running) IN
        /\ tpc' = IF branch = "reset" THEN "reset_time" ELSE "unlock"
        /\ current_time' = IF branch = "run"
                           THEN AccumulateFixed(current_time, elapsed_time)
                           ELSE current_time
    /\ UNCHANGED << stopwatch_running, reset_requested, mutex, buttonVars,
                    displayVars, elapsed_time, ledVars, handlerVars, edgeHist,
                    tEntryReset, tickSetReset,
                    auxVars >>

\* src/stopwatch.c:195
ft_lock ==
    /\ CanRun("timer") /\ tpc = "lock"
    /\ lockMutex("timer")
    /\ tpc' = "body"
    /\ UNCHANGED << sharedVars, buttonVars, displayVars, elapsed_time, ledVars,
                    handlerVars, edgeHist, tEntryReset, tickSetReset,
                    auxVars >>

\* src/stopwatch.c:212-215: release, sleep (elapsed_time is then forgotten,
\* as in t_unlock)
ft_unlock ==
    /\ CanRun("timer") /\ tpc = "unlock"
    /\ unlockMutex("timer")
    /\ elapsed_time' = 0
    /\ tpc' = "clock"
    /\ UNCHANGED << sharedVars, buttonVars, displayVars, ledVars,
                    handlerVars, edgeHist, tEntryReset, tickSetReset,
                    auxVars >>

\* src/stopwatch.c:199 and 200 are the statements of t_reset_time and
\* t_reset_flag
fixed_timer_thread_func ==
    \/ ft_clock \/ ft_lock \/ ft_body \/ t_reset_time \/ t_reset_flag
    \/ ft_unlock

\* cleanup has executed pthread_mutex_destroy (src/stopwatch.c:269)
MutexDestroyed == hpc \in {"exit", "done"}

\* worker t of src/stopwatch.c is about to call pthread_mutex_lock
AtLockFixed(t) ==
    CASE t = "button" -> bpc \in {"ss_lock", "rs_lock"}
      [] t = "timer" -> tpc = "lock"

\* worker t of src/stopwatch.c is about to call pthread_mutex_unlock
AtUnlockFixed(t) ==
    CASE t = "button" -> bpc \in {"ss_unlock", "rs_unlock"}
      [] t = "timer" -> tpc = "unlock"

\* the position of worker t (button or timer) moves on as after a lock or
\* unlock call, the mutex staying as it is
StepOver(t) ==
    /\ t = "button" =>
        /\ bpc' = CASE bpc = "ss_lock" -> "ss_flip"
                    [] bpc = "rs_lock" -> "rs_set"
                    [] bpc = "ss_unlock" ->
                        FixedResetBranch(reset_current, reset_prev)
                    [] OTHER -> "update"
        /\ UNCHANGED << tpc, elapsed_time >>
    /\ t = "timer" =>
        /\ tpc' = IF tpc = "lock" THEN "body" ELSE "clock"
        /\ elapsed_time' = IF tpc = "lock" THEN elapsed_time ELSE 0
        /\ UNCHANGED bpc
    /\ UNCHANGED << sharedVars, mutex, start_stop_prev, start_stop_current,
                    reset_prev, reset_current, state, displayVars,
                    ledVars, handlerVars, edgeHist, tEntryReset,
                    tickSetReset, auxVars >>

\* src/stopwatch.c:101, 120, 195 after line 269: the behaviour of a
\* lock call on a destroyed mutex is undefined.  It may work as before (the
\* lock actions above), or fail at once (glibc: EINVAL after the destruction
\* of a free mutex); the result is not looked at, and the worker goes on
\* without owning the mutex.
f_lock_destroyed(t) ==
    /\ CanRun(t) /\ AtLockFixed(t)
    /\ MutexDestroyed /\ mutex = NoOwner
    /\ StepOver(t)

\* src/stopwatch.c:115, 122, 212 after line 269: the unlock call of a
\* worker that does not own the mutex fails, and the worker goes on
f_unlock_destroyed(t) ==
    /\ CanRun(t) /\ AtUnlockFixed(t)
    /\ MutexDestroyed /\ mutex # t
    /\ StepOver(t)

NextFixedWorkers ==
    \/ fixed_button_thread_func
    \/ fixed_timer_thread_func
    \/ \E t \in Threads : f_deliver(t)
    \/ fixed_cleanup
    \/ \E t \in {"button", "timer"} : f_lock_destroyed(t)
    \/ \E t \in {"button", "timer"} : f_unlock_destroyed(t)

SpecFixedWorkers == InitFixedWorkers /\ [][NextFixedWorkers]_vars

(***************************************************************************)
(* Failing lock calls.  lockMutex and unlockMutex (lines 25-42) answer a   *)
(* non-zero result of pthread_mutex_lock / pthread_mutex_unlock with       *)
(* raise(SIGINT): cleanup runs at once on the stack of the calling thread  *)
(* and never returns.  Inside cleanup SIGINT is blocked, so a failure of   *)
(* its own lockMutex has no effect and cleanup goes on without the mutex.  *)
(* The raised SIGINT is the only signal here, and one handler runs at a    *)
(* time: a call of a worker fails only while no handler runs.              *)
(***************************************************************************)
\* worker t is about to call lockMutex
AtLock(t) ==
    CASE t = "button" -> bpc \in {"ss_lock", "rs_lock"}
      [] t = "display" -> dpc = "lock"
      [] t = "timer" -> tpc = "lock"

\* worker t is about to call unlockMutex
AtUnlock(t) ==
    CASE t = "button" -> bpc \in {"ss_unlock", "rs_unlock"}
      [] t = "display" -> dpc = "unlock"
      [] t = "timer" -> tpc \in {"unlock", "unlock_idle"}

\* lines 27-31: pthread_mutex_lock fails in worker t, which raises SIGINT
lockMutex_fails(t) ==
    /\ CanRun(t) /\ AtLock(t)
    /\ hpc = "idle"
    /\ hpc' = "lock" /\ hctx' = t
    /\ lockFailed' = t
    /\ UNCHANGED << signalFrame, startupVars, libVars, clockVars,
                    renderVars, schedVars >>

\* lines 37-41: pthread_mutex_unlock fails in worker t (the mutex stays
\* with its owner), which raises SIGINT
unlockMutex_fails(t) ==
    /\ CanRun(t) /\ AtUnlock(t)
    /\ hpc = "idle"
    /\ hpc' = "lock" /\ hctx' = t
    /\ lockFailed' = t
    /\ UNCHANGED << signalFrame, startupVars, libVars, clockVars,
                    renderVars, schedVars >>

\* cleanup, line 231: pthread_mutex_lock fails inside the handler
h_lock_fails ==
    /\ Running /\ hpc = "lock"
    /\ hpc' = "red"
    /\ UNCHANGED << sharedVars, mutex, buttonVars, displayVars, timerVars,
                    ledVars, hctx, exit_code, redOffWrites, greenOffWrites,
                    edgeHist, tEntryReset, tickSetReset, auxVars >>

NextLockFail ==
    \/ button_thread_func
    \/ display_thread_func
    \/ timer_thread_func
    \/ cleanup
    \/ \E t \in Workers : lockMutex_fails(t)
    \/ \E t \in Workers : unlockMutex_fails(t)
    \/ h_lock_fails

SpecLockFail == Init /\ [][NextLockFail]_vars

(***************************************************************************)
(* setup_pwm (src/bbbio.c:282-375) as a function of its arguments and of   *)
(* the files it looks at.  A pin identifier is a pair of characters.  A    *)
(* channel is << chip, number >>; NoChannel stands for the locals          *)
(* channel_path = NULL_STR and channel_number = -1.  write_to_file         *)
(* (lines 26-43) returns 1 exactly when fopen succeeds on a non-empty path *)
(* with a non-empty text: what the kernel answers at fclose is dropped.    *)
(* The files of a channel can be opened when the channel is exported; the  *)
(* pinmux state files and the export files can be opened or not.  A write  *)
(* is recorded when the file was opened.  period_ns and duty_ns are        *)
(* computed in integers (the code goes through float32_t).                 *)
(***************************************************************************)
\* the largest frequency the model passes (the smallest is -1)
MaxFrequency == 1
PWM_ON == 1
PinChars == << {"1", "2", "3"}, {"A", "B", "C"} >>
PinIdentifiers == { << a, b >> : a \in PinChars[1], b \in PinChars[2] }
Frequencies == -1..MaxFrequency
DutyPercents == {-1, 0, 50, 100, 101}
Channels == { << chip, n >> : chip \in {1, 2}, n \in {0, 1} }
NoChannel == << 0, -1 >>

\* the if / else-if chain on the first two characters of pin_identifier
\* (lines 299-326, 165-179, 197-211, 244-258)
PwmChannel(pin) ==
    IF pin[1] = "1" /\ pin[2] = "A" THEN << 1, 0 >>
    ELSE IF pin[1] = "1" /\ pin[2] = "B" THEN << 1, 1 >>
    ELSE IF pin[1] = "2" /\ pin[2] = "A" THEN << 2, 0 >>
    ELSE IF pin[1] = "2" /\ pin[2] = "B" THEN << 2, 1 >>
    ELSE NoChannel

\* lines 292, 223, 268
InvalidPwmArguments(f, d) == d <= 0 \/ d > 100 \/ f <= 0

\* lines 295-296
PeriodNs(f) == 1000000000 \div f
DutyNs(f, d) == (PeriodNs(f) \div 100) * d

PwmWrite(file, ch, value) ==
    [file |-> file, chip |-> ch[1], channel |-> ch[2], value |-> value]

\* set_pwm_frequency, lines 240-279
set_pwm_frequency(pin, f, exported) ==
    LET ch == PwmChannel(pin) IN
    IF ch # NoChannel /\ f > 0 /\ ch \in exported
    THEN << PwmWrite("period", ch, PeriodNs(f)) >>
    ELSE << >>

\* set_pwm_duty_cycle, lines 193-237
set_pwm_duty_cycle(pin, f, d, exported) ==
    LET ch == PwmChannel(pin) IN
    IF ch # NoChannel /\ ~InvalidPwmArguments(f, d) /\ ch \in exported
    THEN << PwmWrite("duty_cycle", ch, DutyNs(f, d)) >>
    ELSE << >>

\* set_pwm_enable, lines 161-190
set_pwm_enable(pin, value, exported) ==
    LET ch == PwmChannel(pin) IN
    IF ch # NoChannel /\ ch \in exported
    THEN << PwmWrite("enable", ch, value) >>
    ELSE << >>

\* line 333: the test that guards the export step
PwmExportSkipped(result, ch) == result = 1 /\ ch[2] < 0

\* setup_pwm, lines 282-375: the value returned, the writes made in order,
\* and the channels exported afterwards
SetupPwm(pin, f, d, fs) ==
    LET \* lines 292-297
        valid == ~InvalidPwmArguments(f, d)
        \* lines 299-330: channel_path / channel_number and the pinmux write
        ch == IF valid THEN PwmChannel(pin) ELSE NoChannel
        stateWrite == valid /\ ch # NoChannel /\ fs.state_writable
        result2 == IF stateWrite THEN 1 ELSE 0
        w1 == IF stateWrite THEN << PwmWrite("state", ch, "pwm") >> ELSE << >>
        \* lines 333-365
        skipped == PwmExportSkipped(result2, ch)
        exists == IF ch = NoChannel THEN fs.null_exists ELSE ch \in fs.exported
        chip == IF pin[1] = "1" THEN 1 ELSE IF pin[1] = "2" THEN 2 ELSE 0
        exportWrite == ~skipped /\ ~exists /\ chip # 0 /\ fs.export_writable
        result3 == IF skipped THEN 0
                   ELSE IF exists THEN 1
                   ELSE IF exportWrite THEN 1 ELSE 0
        w2 == IF exportWrite
              THEN << PwmWrite("export", << chip, ch[2] >>, ch[2]) >>
              ELSE << >>
        exported == IF exportWrite /\ ch[2] >= 0
                    THEN fs.exported \cup { << chip, ch[2] >> }
                    ELSE fs.exported
        \* lines 367-372
        w3 == IF result3 = 1
              THEN set_pwm_frequency(pin, f, exported)
                   \o set_pwm_duty_cycle(pin, f, d, exported)
                   \o set_pwm_enable(pin, PWM_ON, exported)
              ELSE << >>
    IN [result |-> result3, writes |-> w1 \o w2 \o w3, exported |-> exported]

\* the stopwatch as Init leaves it
StopwatchAtRest ==
    /\ WorkersInit
    /\ red_led = GPIO_ON /\ green_led = GPIO_OFF
    /\ Started

InitPwm ==
    /\ StopwatchAtRest /\ GpioIdle
    /\ pwm_pc = "call"
    /\ pin_identifier \in PinIdentifiers
    /\ frequency \in Frequencies
    /\ duty_percent \in DutyPercents
    /\ pwm_fs \in [null_exists : BOOLEAN, exported : SUBSET Channels,
                   state_writable : BOOLEAN, export_writable : BOOLEAN]
    /\ pwm_result = 0 /\ pwm_writes = << >>

\* one call of setup_pwm
setup_pwm ==
    /\ pwm_pc = "call"
    /\ LET r == SetupPwm(pin_identifier, frequency, duty_percent, pwm_fs) IN
        /\ pwm_result' = r.result
        /\ pwm_writes' = r.writes
        /\ pwm_fs' = [pwm_fs EXCEPT !.exported = r.exported]
    /\ pwm_pc' = "returned"
    /\ UNCHANGED << coreVars, startupVars, failVars, clockVars, renderVars,
                    schedVars, gpioVars,
                    pin_identifier, frequency, duty_percent >>

NextPwm == setup_pwm

SpecPwm == InitPwm /\ [][NextPwm]_vars

(***************************************************************************)
(* setup_gpio_pin (src/bbbio.c:94-122) as a function of its arguments and  *)
(* of the GPIO files.  The value and direction files of a pin exist        *)
(* exactly while the pin is exported.  The export file can be opened or    *)
(* not; a write to it exports the pin when the kernel knows the pin, and   *)
(* write_to_file_int returns 1 either way.  A freshly exported pin is an   *)
(* input.  The permissions and the set of pins the kernel knows do not     *)
(* change between calls.                                                   *)
(***************************************************************************)
\* the pins passed are 0..MaxPin
MaxPin == 1
\* the number of calls followed
MaxCalls == 2
GpioPins == 0..MaxPin
Directions == {"in", "out", ""}

\* mutant of GpioExportNeeded: the pin is exported on every call
GpioExportNeeded_always(pin, exported) == TRUE

\* line 100: the pin is exported unless its value file exists
GpioExportNeeded(pin, exported) == pin \notin exported

\* setup_gpio_pin, lines 94-122: the value returned, whether the export
\* file was written, the pins exported and their directions afterwards
SetupGpioPin(pin, direction, fs, exported, directions) ==
    LET \* lines 100-111
        exportWrite == GpioExportNeeded(pin, exported) /\ fs.export_writable
        result1 == IF ~GpioExportNeeded(pin, exported) THEN 1
                   ELSE IF exportWrite THEN 1 ELSE 0
        newlyExported == exportWrite /\ pin \in fs.valid_pins /\ pin \notin exported
        exported2 == IF newlyExported THEN exported \cup {pin} ELSE exported
        directions2 == IF newlyExported
                       THEN [directions EXCEPT ![pin] = "in"]
                       ELSE directions
        \* lines 114-119: write_to_file refuses an empty text and fails when
        \* the direction file cannot be opened
        directionWrite == result1 = 1 /\ direction # "" /\ pin \in exported2
        result == IF directionWrite THEN 1 ELSE 0
    IN [result |-> result,
        export_write |-> exportWrite,
        direction_write |-> directionWrite,
        exported |-> exported2,
        directions |-> IF directionWrite
                       THEN [directions2 EXCEPT ![pin] = direction]
                       ELSE directions2]

InitGpio ==
    /\ StopwatchAtRest /\ PwmIdle
    /\ gpio_fs \in [valid_pins : SUBSET GpioPins, export_writable : BOOLEAN]
    /\ gpio_exported \in SUBSET gpio_fs.valid_pins
    /\ gpio_direction \in [GpioPins -> {"none", "in", "out"}]
    /\ \A p \in GpioPins : gpio_direction[p] = "none" <=> p \notin gpio_exported
    /\ gpio_calls = << >>

\* one call setup_gpio_pin(pin, direction)
setup_gpio_pin(pin, direction) ==
    /\ Len(gpio_calls) < MaxCalls
    /\ LET r == SetupGpioPin(pin, direction, gpio_fs, gpio_exported,
                             gpio_direction) IN
        /\ gpio_exported' = r.exported
        /\ gpio_direction' = r.directions
        /\ gpio_calls' = Append(gpio_calls,
                                [pin |-> pin, direction |-> direction,
                                 exported_before |-> pin \in gpio_exported,
                                 result |-> r.result,
                                 export_write |-> r.export_write,
                                 direction_write |-> r.direction_write,
                                 exported |-> r.exported,
                                 directions |-> r.directions])
    /\ UNCHANGED << coreVars, startupVars, failVars, clockVars, renderVars,
                    schedVars, pwmVars,
                    gpio_fs >>

NextGpio == \E pin \in GpioPins, direction \in Directions :
                setup_gpio_pin(pin, direction)

SpecGpio == InitGpio /\ [][NextGpio]_vars

(***************************************************************************)
(* The timer thread with its clock (src/src/stopwatch.c:132-143; the same  *)
(* statements at src/stopwatch.c:182-194).  Time is counted from the       *)
(* timestamp held in last_time; the clock moves on between two statements  *)
(* of any thread, and at most MaxDelta units pass between two ticks.  The  *)
(* display thread writes nothing the timer reads and is left out, as is    *)
(* termination.                                                            *)
(***************************************************************************)
\* the largest number of idle ticks in a row that is counted
MaxIdle == 2
MaxIdleTime == MaxIdle * MaxDelta

\* the clock moves on by one unit
clock_advance ==
    /\ Running
    /\ since_last < MaxDelta /\ since_tick < MaxDelta
    /\ since_last' = since_last + 1
    /\ since_tick' = since_tick + 1
    /\ UNCHANGED << coreVars, startupVars, failVars, libVars, renderVars,
                    schedVars,
                    tick_delta, time_before, this_branch, prev_branch,
                    idle_ticks, idle_time >>

\* mutant of tc_clock: last_time is replaced only while the stopwatch runs
tc_clock_keeps_timestamp_when_stopped ==
    /\ CanRun("timer") /\ tpc = "clock"
    /\ elapsed_time' = since_last
    /\ since_last' = IF stopwatch_running = 1 THEN 0 ELSE since_last
    /\ tick_delta' = since_tick
    /\ since_tick' = 0
    /\ prev_branch' = this_branch
    /\ this_branch' = "none"
    /\ idle_ticks' = IF this_branch = "idle"
                     THEN (IF idle_ticks < MaxIdle THEN idle_ticks + 1 ELSE idle_ticks)
                     ELSE IF this_branch = "none" THEN idle_ticks ELSE 0
    /\ idle_time' = IF this_branch = "idle"
                    THEN (IF idle_time + tick_delta <= MaxIdleTime
                          THEN idle_time + tick_delta ELSE MaxIdleTime)
                    ELSE IF this_branch = "none" THEN idle_time ELSE 0
    /\ tpc' = "lock"
    /\ UNCHANGED << sharedVars, mutex, buttonVars, displayVars, ledVars,
                    handlerVars, edgeHist, tEntryReset, tickSetReset,
                    startupVars, failVars, libVars, renderVars,
                    schedVars, time_before >>

\* lines 136-143: read the clock, compute the delta from last_time, replace
\* last_time by the timestamp just read
tc_clock ==
    /\ CanRun("timer") /\ tpc = "clock"
    /\ elapsed_time' = since_last
    /\ since_last' = 0
    /\ tick_delta' = since_tick
    /\ since_tick' = 0
    /\ prev_branch' = this_branch
    /\ this_branch' = "none"
    /\ idle_ticks' = IF this_branch = "idle"
                     THEN (IF idle_ticks < MaxIdle THEN idle_ticks + 1 ELSE idle_ticks)
                     ELSE IF this_branch = "none" THEN idle_ticks ELSE 0
    /\ idle_time' = IF this_branch = "idle"
                    THEN (IF idle_time + tick_delta <= MaxIdleTime
                          THEN idle_time + tick_delta ELSE MaxIdleTime)
                    ELSE IF this_branch = "none" THEN idle_time ELSE 0
    /\ tpc' = "lock"
    /\ UNCHANGED << sharedVars, mutex, buttonVars, displayVars, ledVars,
                    handlerVars, edgeHist, tEntryReset, tickSetReset,
                    startupVars, failVars, libVars, renderVars,
                    schedVars, time_before >>

\* lines 148, 152, 153-158, 160: t_body, with the branch taken recorded
tc_body ==
    /\ CanRun("timer") /\ tpc = "body"
    /\ LET branch == TimerBranch(reset_requested, stopwatch_running) IN
        /\ this_branch' = branch
        /\ time_before' = current_time
        /\ IF branch = "reset"
           THEN tpc' = "reset_time" /\ current_time' = current_time
           ELSE IF branch = "run"
           THEN /\ current_time' = Accumulate(current_time, elapsed_time)
                /\ tpc' = "unlock"
           ELSE tpc' = "unlock_idle" /\ current_time' = current_time
    /\ UNCHANGED << stopwatch_running, reset_requested, mutex, buttonVars,
                    displayVars, elapsed_time, ledVars, handlerVars, edgeHist,
                    tEntryReset, tickSetReset,
                    startupVars, failVars, libVars, renderVars, schedVars,
                    since_last, since_tick, tick_delta, prev_branch,
                    idle_ticks, idle_time >>

timer_with_clock ==
    \/ tc_clock \/ t_lock \/ tc_body \/ t_reset_time \/ t_reset_flag
    \/ t_unlock \/ t_unlock_idle

NextClock ==
    \/ button_thread_func
    \/ timer_with_clock
    \/ clock_advance

SpecClock == Init /\ [][NextClock]_vars

(***************************************************************************)
(* The display thread with its output (src/src/stopwatch.c:99-119; the     *)
(* same statements at src/stopwatch.c:146-167).  The console line is the   *)
(* value handed to printf and the number of fractional digits of the       *)
(* format.  The button and timer threads run beside it; termination is     *)
(* left out.                                                               *)
(***************************************************************************)
\* lines 107-113: "%.1f" when the copy of stopwatch_running is 1, else "%.2f"
FractionalDigits(running) == IF running = 1 THEN 1 ELSE 2

\* what a step of the display thread leaves alone besides its own variables,
\* the mutex and the console
displayFrame == << sharedVars, buttonVars, timerVars, ledVars, handlerVars,
                   edgeHist, tEntryReset, tickSetReset,
                   startupVars, failVars, libVars, clockVars, schedVars >>

\* line 102, with the shared state of that moment recorded
dr_unlock ==
    /\ CanRun("display") /\ dpc = "unlock"
    /\ unlockMutex("display")
    /\ snap_time' = current_time
    /\ snap_running' = stopwatch_running
    /\ dpc' = "print"
    /\ UNCHANGED << displayFrame, time_to_display, is_running,
                    shown_time, shown_digits, running_at_render >>

\* mutant of dr_print: the time is read again from the shared state
dr_print_reads_current_time ==
    /\ CanRun("display") /\ dpc = "print"
    /\ shown_time' = current_time
    /\ shown_digits' = FractionalDigits(is_running)
    /\ running_at_render' = stopwatch_running
    /\ time_to_display' = 0 /\ is_running' = 0
    /\ dpc' = "lock"
    /\ UNCHANGED << displayFrame, mutex, snap_time, snap_running >>

\* mutant of dr_print: the format follows stopwatch_running, not the copy
dr_print_reads_stopwatch_running ==
    /\ CanRun("display") /\ dpc = "print"
    /\ shown_time' = time_to_display
    /\ shown_digits' = FractionalDigits(stopwatch_running)
    /\ running_at_render' = stopwatch_running
    /\ time_to_display' = 0 /\ is_running' = 0
    /\ dpc' = "lock"
    /\ UNCHANGED << displayFrame, mutex, snap_time, snap_running >>

\* lines 105-119: print the copy of current_time in the format chosen by the
\* copy of stopwatch_running, flush, sleep (the locals are then forgotten,
\* as in d_print)
dr_print ==
    /\ CanRun("display") /\ dpc = "print"
    /\ shown_time' = time_to_display
    /\ shown_digits' = FractionalDigits(is_running)
    /\ running_at_render' = stopwatch_running
    /\ time_to_display' = 0 /\ is_running' = 0
    /\ dpc' = "lock"
    /\ UNCHANGED << displayFrame, mutex, snap_time, snap_running >>

display_with_output ==
    \/ d_lock \/ d_copy_time \/ d_copy_running \/ dr_unlock \/ dr_print

NextDisplay ==
    \/ button_thread_func
    \/ display_with_output
    \/ timer_thread_func

SpecDisplay == Init /\ [][NextDisplay]_vars

(***************************************************************************)
(* The three workers on one processor under SCHED_FIFO (lines 262-264)     *)
(* with the priorities of lines 276-278 and the priority-inheritance mutex *)
(* of lines 308-310.  A worker is ready unless it is inside usleep or      *)
(* blocked in pthread_mutex_lock; the processor runs a ready worker whose  *)
(* priority no other ready worker exceeds.  The owner of the mutex runs at *)
(* the highest priority among its own and those of the workers blocked on  *)
(* the mutex.  A usleep ends at a moment the program does not choose.      *)
(* main is blocked in pthread_join; termination is left out.               *)
(***************************************************************************)
\* lines 288-294: the priority each worker was created with
BasePriority(t) ==
    CASE t = "button" -> button_priority
      [] t = "timer" -> timer_priority
      [] t = "display" -> display_priority

\* worker t has called pthread_mutex_lock and the mutex is still taken
Blocked(t) == t \in waiting /\ mutex # NoOwner

Ready(t) == t \notin asleep /\ ~Blocked(t)

\* the larger of two priorities
Higher(p, q) == IF p >= q THEN p ELSE q

\* mutant of EffectivePriority: the mutex has no protocol
EffectivePriority_without_inheritance(t) == BasePriority(t)

\* line 309, PTHREAD_PRIO_INHERIT: the owner of the mutex runs at the
\* highest priority among its own and those of the workers it blocks
EffectivePriority(t) ==
    LET blocks == { u \in Workers : Blocked(u) /\ mutex = t }
        inherit[S \in SUBSET Workers] ==
            IF S = {} THEN BasePriority(t)
            ELSE LET u == CHOOSE x \in S : TRUE
                 IN Higher(BasePriority(u), inherit[S \ {u}])
    IN inherit[blocks]

\* worker t is the one the processor runs
OnCpu(t) ==
    /\ Running /\ Ready(t)
    /\ \A u \in Workers : Ready(u) => EffectivePriority(u) <= EffectivePriority(t)

\* worker t runs and is not in the queue of the mutex
Scheduled(t) == OnCpu(t) /\ t \notin waiting

\* what a step of the scheduler leaves alone
schedFrame == << coreVars, startupVars, failVars, libVars, clockVars,
                 renderVars >>

\* the usleep of worker t ends
s_wake(t) ==
    /\ Running /\ t \in asleep
    /\ asleep' = asleep \ {t}
    /\ UNCHANGED << schedFrame, waiting >>

\* lines 27, 57, 75, 99, 145: worker t calls pthread_mutex_lock while the
\* mutex is taken, and blocks
s_block(t) ==
    /\ Scheduled(t) /\ AtLock(t)
    /\ mutex # NoOwner
    /\ waiting' = waiting \cup {t}
    /\ UNCHANGED << schedFrame, asleep >>

\* the mutex has been released: worker t leaves the queue and tries again
s_unblock(t) ==
    /\ OnCpu(t) /\ t \in waiting
    /\ mutex = NoOwner
    /\ waiting' = waiting \ {t}
    /\ UNCHANGED << schedFrame, asleep >>

\* what a step that ends in usleep leaves alone besides the worker's own
\* variables and the mutex
sleepFrame == << startupVars, failVars, libVars, clockVars, renderVars,
                 waiting >>

\* lines 83-86: b_update, the button thread then being inside usleep
sb_update ==
    /\ bpc = "update"
    /\ start_stop_prev' = start_stop_current
    /\ reset_prev' = reset_current
    /\ bpc' = "sleep"
    /\ asleep' = asleep \cup {"button"}
    /\ UNCHANGED << sharedVars, mutex, start_stop_current, reset_current, state,
                    displayVars, timerVars, ledVars, handlerVars, edgeHist,
                    tEntryReset, tickSetReset, sleepFrame >>

\* lines 105-119: d_print, the display thread then being inside usleep
sd_print ==
    /\ dpc = "print"
    /\ time_to_display' = 0 /\ is_running' = 0
    /\ dpc' = "lock"
    /\ asleep' = asleep \cup {"display"}
    /\ UNCHANGED << sharedVars, mutex, buttonVars,
                    timerVars, ledVars, handlerVars, edgeHist, tEntryReset,
                    tickSetReset, sleepFrame >>

\* lines 166-167: t_unlock, the timer thread then being inside usleep
st_unlock ==
    /\ tpc = "unlock"
    /\ unlockMutex("timer")
    /\ tEntryReset' = 0
    /\ elapsed_time' = 0
    /\ tpc' = "clock"
    /\ asleep' = asleep \cup {"timer"}
    /\ UNCHANGED << sharedVars, buttonVars, displayVars, ledVars,
                    handlerVars, edgeHist, tickSetReset, sleepFrame >>

\* lines 161-163: t_unlock_idle, the timer thread then being inside usleep
st_unlock_idle ==
    /\ tpc = "unlock_idle"
    /\ unlockMutex("timer")
    /\ tEntryReset' = 0
    /\ elapsed_time' = 0
    /\ tpc' = "clock"
    /\ asleep' = asleep \cup {"timer"}
    /\ UNCHANGED << sharedVars, buttonVars, displayVars, ledVars,
                    handlerVars, edgeHist, tickSetReset, sleepFrame >>

sched_button ==
    /\ Scheduled("button")
    /\ \/ b_read \/ b_ss_lock \/ b_ss_flip \/ b_ss_unlock \/ b_led_red
       \/ b_led_green \/ b_rs_lock \/ b_rs_set \/ b_rs_unlock \/ sb_update

sched_display ==
    /\ Scheduled("display")
    /\ \/ d_lock \/ d_copy_time \/ d_copy_running \/ d_unlock \/ sd_print

sched_timer ==
    /\ Scheduled("timer")
    /\ \/ t_clock \/ t_lock \/ t_body \/ t_reset_time \/ t_reset_flag
       \/ st_unlock \/ st_unlock_idle

NextSched ==
    \/ sched_button
    \/ sched_display
    \/ sched_timer
    \/ \E t \in Workers : s_wake(t)
    \/ \E t \in Workers : s_block(t)
    \/ \E t \in Workers : s_unblock(t)

SpecSched == Init /\ [][NextSched]_vars

(***************************************************************************)
(* The three workers without a termination signal, with the scheduling the *)
(* program relies on: every worker that can take a step is given the       *)
(* processor in the end (each worker sleeps in every tick), and a worker   *)
(* that asks for the mutex gets it if the mutex is free again and again    *)
(* (the waiters of a priority-inheritance mutex are queued and served at   *)
(* the unlock).                                                            *)
(***************************************************************************)
NextWorkers ==
    \/ button_thread_func
    \/ display_thread_func
    \/ timer_thread_func

WorkersFairness ==
    /\ SF_vars(button_thread_func)
    /\ SF_vars(display_thread_func)
    /\ SF_vars(timer_thread_func)

SpecLive == Init /\ [][NextWorkers]_vars /\ WorkersFairness

(***************************************************************************)
(* Critical sections: the positions between a lockMutex and the matching   *)
(* unlockMutex (for cleanup: between lockMutex and exit).                  *)
(***************************************************************************)
Contexts == Workers \cup {"cleanup"}
InCS(c) ==
    CASE c = "button" -> bpc \in {"ss_flip", "ss_unlock", "rs_set", "rs_unlock"}
      [] c = "display" -> dpc \in {"copy_time", "copy_running", "unlock"}
      [] c = "timer" -> tpc \in {"body", "reset_time", "reset_flag", "unlock",
                                 "unlock_idle"}
      [] c = "cleanup" -> hpc \in {"red", "green", "destroy", "exit"}
AtSleep == bpc \in {"read", "sleep"}

(***************************************************************************)
(* C1: whenever the button thread is between two ticks, stopwatch_running  *)
(* has been flipped exactly as often as the sampled start/stop level went  *)
(* from 0 to 1; inside a tick the flip of the tick's edge may be pending.  *)
(***************************************************************************)
C1_FlipsEqualEdges ==
    /\ AtSleep => nFlips = nEdges
    /\ nFlips <= nEdges /\ nEdges <= nFlips + 1
C1_Witness ==
    /\ bpc = "sleep" /\ nEdges = MaxEdges /\ nFlips = MaxEdges
    /\ start_stop_prev = 1 /\ lastLevel = 1

(***************************************************************************)
(* C2: a button tick whose reset sample is a rising edge has executed      *)
(* reset_requested = 1 by the time it records the levels.                  *)
(***************************************************************************)
C2_ResetEdgeSetsPending ==
    (bpc = "update" /\ RisingEdge(reset_current, reset_prev)) => tickSetReset = 1

(***************************************************************************)
(* C3: a timer tick that found reset_requested set when it took the mutex  *)
(* releases the mutex with reset_requested = 0 and current_time = 0.       *)
(***************************************************************************)
C3_ResetConsumed ==
    (tpc \in {"unlock", "unlock_idle"} /\ tEntryReset = 1)
        => (reset_requested = 0 /\ current_time = 0)
C3_Witness ==
    /\ tpc = "unlock" /\ tEntryReset = 1 /\ stopwatch_running = 1
    /\ elapsed_time > 0 /\ reset_requested = 0 /\ current_time = 0

C6_SignalLeadsToExit ==
    hpc # "idle" =>
        \/ exit_code = 0
        \/ ENABLED cleanup
        \/ mutex \in Workers /\ CanRun(mutex)

(***************************************************************************)
(* C7: stopwatch_running changes only in the button thread's flip, in a    *)
(* tick whose start/stop sample is a rising edge; no step of the timer     *)
(* (consuming a reset included), of the display or of cleanup changes it.  *)
(***************************************************************************)
C7_RunningOnlyByButton ==
    [][stopwatch_running' # stopwatch_running
        => /\ bpc = "ss_flip" /\ bpc' = "ss_unlock"
           /\ RisingEdge(start_stop_current, start_stop_prev)
           /\ UNCHANGED << timerVars, displayVars, hpc >>]_vars
C7_Witness ==
    /\ tpc = "unlock" /\ tEntryReset = 1 /\ current_time = 0
    /\ stopwatch_running = 1 /\ nFlips = 1 /\ AtSleep

C9_IdleTickFrozen ==
    [][/\ (stopwatch_running = 0 /\ reset_requested = 0)
            => current_time' = current_time
       /\ (tpc = "body" /\ tpc' # tpc /\ stopwatch_running = 0 /\ reset_requested = 0)
            => (tpc' = "unlock_idle" /\ UNCHANGED sharedVars)]_vars
C9_Witness ==
    /\ tpc = "unlock_idle" /\ current_time > 0
    /\ stopwatch_running = 0 /\ reset_requested = 0

(***************************************************************************)
(* C10: while the button thread is between two ticks and cleanup has not   *)
(* started, the LEDs show stopwatch_running: green on and red off when it  *)
(* is set, red on and green off when it is clear.                          *)
(***************************************************************************)
C10_LedsMatchRunning ==
    (AtSleep /\ hpc = "idle") =>
        IF stopwatch_running = 1
        THEN green_led = GPIO_ON /\ red_led = GPIO_OFF
        ELSE red_led = GPIO_ON /\ green_led = GPIO_OFF
C10_Witness ==
    /\ bpc = "sleep" /\ hpc = "idle" /\ nEdges = 1
    /\ stopwatch_running = 1 /\ green_led = GPIO_ON /\ red_led = GPIO_OFF

(***************************************************************************)
(* Startup failures.                                                       *)
(***************************************************************************)
\* the pin setup is over and has not configured the four pins
GpioSetupFailed ==
    /\ input # "unread"
    /\ mpc \notin {"mutex", "pin1", "pin2", "pin3", "pin4", "input", "pins"}
    /\ input = "bad" \/ pins_configured # AllPins

\* C11: when the pin identifiers cannot be read or one of the four pins
\* cannot be configured, no worker thread is ever created and the only exit
\* main takes is a non-zero one (a zero exit is the work of a termination
\* signal); a worker thread exists only after all four pins were configured.
C11_SetupFailureIsFatal ==
    /\ created # {} => (input # "bad" /\ pins_configured = AllPins)
    /\ GpioSetupFailed =>
        /\ created = {}
        /\ mpc = "exited" => exit_code = 1
        /\ exit_code = 0 => hpc = "done"

(***************************************************************************)
(* Failure of the lock.                                                    *)
(***************************************************************************)
\* the position and the locals of worker t
WorkerVars(t) ==
    CASE t = "button" -> buttonVars
      [] t = "display" -> displayVars
      [] t = "timer" -> timerVars

\* C12: once a lock acquisition or release has reported failure in a worker,
\* that worker takes no further step (so it touches the shared timer state
\* no more), the shared state is not written by it, and the process never
\* ends with exit code 0.
C12_LockFailureIsFatal ==
    [][lockFailed # "none" =>
        /\ UNCHANGED WorkerVars(lockFailed)
        /\ exit_code' # 0]_vars

(***************************************************************************)
(* Failed reads of a button pin (read_gpio_value returns -1).              *)
(***************************************************************************)
\* C13: a tick is on the path that flips stopwatch_running (lines 57-70)
\* only when its start/stop read returned 1, and on the path that sets
\* reset_requested (lines 75-77) only when its reset read returned 1; so a
\* tick whose read of a button failed never flips or sets on account of
\* that button, whatever the previous level.  A failed read does not end
\* the process: only the signal handler does.
C13_FailedReadNoPress ==
    /\ bpc \in {"ss_lock", "ss_flip", "ss_unlock", "led_red", "led_green"}
        => start_stop_current = 1
    /\ bpc \in {"rs_lock", "rs_set", "rs_unlock"} => reset_current = 1
    /\ (bpc = "update" /\ start_stop_current = -1 /\ reset_current = -1)
        => (tickSetReset = 0 /\ nFlips = nEdges)
    /\ exit_code # -1 => hpc = "done"

\* both reads of a tick failed, with previous levels 0 (start/stop) and 1
\* (reset), and the tick has passed the branches; an earlier tick had
\* flipped stopwatch_running
C13_Witness ==
    /\ bpc = "update"
    /\ start_stop_current = -1 /\ start_stop_prev = 0
    /\ reset_current = -1 /\ reset_prev = 1
    /\ nFlips = 1 /\ exit_code = -1

\* C14: a tick that reads 1 on a button whose read failed in the tick before
\* treats it as a rising edge: the start/stop button takes the tick to the
\* flip of stopwatch_running; the reset button (start/stop not pressed)
\* takes it to the setting of reset_requested.
C14_FailedReadCountsAsLow ==
    [][(AtSleep /\ ~AtSleep') =>
        /\ (start_stop_prev = -1 /\ start_stop_current' = 1)
            => bpc' = "ss_lock"
        /\ (reset_prev = -1 /\ reset_current' = 1 /\ start_stop_current' # 1)
            => bpc' = "rs_lock"]_vars

(***************************************************************************)
(* Priorities of the workers.                                              *)
(***************************************************************************)
\* C15: in src/src/stopwatch.c, whatever SCHED_FIFO range of at least 32
\* priorities the platform reports, once the three workers are created
\* their priorities satisfy button >= timer > display.
C15_PriorityOrder ==
    created = Workers =>
        /\ button_priority >= timer_priority
        /\ timer_priority > display_priority

\* C16: in src/stopwatch.c the priorities the workers are created with
\* satisfy button >= timer > display.
C16_FixedPriorityOrder ==
    /\ {"button", "timer"} \subseteq created
        => button_priority >= timer_priority
    /\ {"timer", "display"} \subseteq created
        => timer_priority > display_priority

(***************************************************************************)
(* bbbio.c: rejected arguments of setup_pwm.                               *)
(***************************************************************************)
\* C17: a call of setup_pwm with frequency <= 0 or duty_percent outside
\* (0, 100] returns 0 and has written to no file, for every pin identifier
\* and every state of the files.
C17_InvalidPwmArgumentsRejected ==
    (pwm_pc = "returned" /\ InvalidPwmArguments(frequency, duty_percent))
        => (pwm_result = 0 /\ pwm_writes = << >>)

C19_ResetBeforeAccumulate ==
    /\ (tEntryReset = 1 /\ this_branch # "none") => this_branch = "reset"
    /\ (tpc \in {"reset_flag", "unlock"} /\ this_branch = "reset")
        => current_time = 0
    /\ (tpc = "unlock" /\ this_branch = "run" /\ prev_branch = "reset")
        => current_time = Accumulate(0, tick_delta)

\* a tick found reset_requested and stopwatch_running both set, measured a
\* positive delta, and is about to release the mutex
C19_Witness ==
    /\ tpc = "unlock" /\ this_branch = "reset" /\ tEntryReset = 1
    /\ stopwatch_running = 1
    /\ tick_delta > 0 /\ elapsed_time = tick_delta
    /\ time_before > 0 /\ current_time = 0

\* C20: on every tick, whatever its branch, last_time becomes the timestamp
\* just read (the time since last_time is the time since the latest tick);
\* so the first running tick after any number of idle ticks adds the time
\* since the tick just before it, not the time that passed while idle.
C20_TimestampReplacedEveryTick ==
    /\ since_last = since_tick
    /\ (tpc = "unlock" /\ this_branch = "run")
        => /\ elapsed_time = tick_delta
           /\ current_time = Accumulate(time_before, tick_delta)

\* a running tick follows MaxIdle idle ticks over which more time passed
\* than since the last of them, and has added that last delta only
C20_Witness ==
    /\ tpc = "unlock" /\ this_branch = "run"
    /\ idle_ticks = MaxIdle /\ prev_branch = "idle"
    /\ idle_time > tick_delta /\ tick_delta > 0
    /\ current_time = time_before + tick_delta

(***************************************************************************)
(* C21: a timer tick that finds the stopwatch running and no reset pending *)
(* leaves current_time at the sum of current_time and the delta when the   *)
(* sum is at most the maximum, and at 0 otherwise; no step takes           *)
(* current_time above the maximum.                                         *)
(***************************************************************************)
C21_WrapAboveMax ==
    [][/\ (/\ tpc = "body" /\ tpc' = "unlock"
           /\ reset_requested = 0 /\ stopwatch_running = 1)
            => current_time' = IF current_time + elapsed_time <= MaxTime
                               THEN current_time + elapsed_time
                               ELSE 0
       /\ current_time' <= MaxTime]_vars

(***************************************************************************)
(* C22: the display thread owns the mutex exactly while it copies; when it *)
(* is about to release the mutex its two copies equal current_time and     *)
(* stopwatch_running of that moment; when it prints, the mutex is released *)
(* and the copies, and afterwards the value on the console, are the pair   *)
(* the shared state held at the release.                                   *)
(***************************************************************************)
C22_RenderedPairIsSnapshot ==
    /\ mutex = "display" <=> dpc \in {"copy_time", "copy_running", "unlock"}
    /\ dpc = "unlock" =>
        (time_to_display = current_time /\ is_running = stopwatch_running)
    /\ dpc = "print" =>
        (time_to_display = snap_time /\ is_running = snap_running)
    /\ (dpc # "print" /\ shown_digits # 0) =>
        (shown_time = snap_time /\ shown_digits \in {1, 2})
C22_Witness ==
    /\ dpc = "print" /\ mutex = "timer"
    /\ time_to_display # current_time /\ is_running # stopwatch_running
    /\ shown_digits # 0

(***************************************************************************)
(* C23: the line on the console has one fractional digit when              *)
(* stopwatch_running was 1 at the moment the display released the mutex    *)
(* and two when it was 0, whatever stopwatch_running is when the line is   *)
(* printed.                                                                *)
(***************************************************************************)
C23_DigitsFollowCapturedRunning ==
    (dpc # "print" /\ shown_digits # 0) =>
        shown_digits = (IF snap_running = 1 THEN 1 ELSE 2)
C23_Witness ==
    /\ dpc = "lock" /\ shown_digits = 1
    /\ snap_running = 1 /\ running_at_render = 0

(***************************************************************************)
(* C24: on one processor, while the button thread is blocked on the mutex  *)
(* and the display thread owns it, the processor runs the display thread:  *)
(* no step moves the timer thread or the button thread, and the display    *)
(* thread is inside the critical section it entered, which ends with its   *)
(* unlock.                                                                 *)
(***************************************************************************)
C24_InheritanceKeepsTimerOut ==
    [][(Blocked("button") /\ mutex = "display")
        => /\ OnCpu("display") /\ InCS("display")
           /\ tpc' = tpc /\ bpc' = bpc
           /\ ("timer" \in waiting') = ("timer" \in waiting)]_vars
C24_Witness ==
    /\ Blocked("button") /\ mutex = "display"
    /\ Ready("timer") /\ tpc = "lock"
    /\ timer_priority > display_priority /\ button_priority > timer_priority

(***************************************************************************)
(* C25: without a termination signal a worker owns the mutex exactly while *)
(* it is between its lockMutex and the matching unlockMutex, so never at   *)
(* its sleep, and no worker stays at a lockMutex call for ever: a worker   *)
(* leaves a lockMutex call only by taking the mutex, so every worker that  *)
(* asks for the mutex comes to own it.                                     *)
(***************************************************************************)
C25_UnlockBeforeSleepNoDeadlock ==
    /\ [](\A t \in Workers : mutex = t <=> InCS(t))
    /\ \A t \in Workers : []<>(~AtLock(t))
C25_Witness ==
    /\ tpc = "unlock_idle" /\ mutex = "timer"
    /\ bpc = "ss_lock" /\ RisingEdge(reset_current, reset_prev)
    /\ dpc = "lock"

(***************************************************************************)
(* C26: current_time changes only in a step of the timer thread;           *)
(* reset_requested goes from 1 to 0 only in the timer's line 150, inside   *)
(* the critical section whose line 149 has just set current_time to 0; it  *)
(* goes from 0 to 1 only in the button's line 76, never in a step of the   *)
(* timer.                                                                  *)
(***************************************************************************)
C26_SingleWriter ==
    [][/\ current_time' # current_time
            => /\ tpc \in {"body", "reset_time"} /\ tpc' # tpc
               /\ mutex = "timer"
               /\ UNCHANGED << buttonVars, displayVars, hpc >>
       /\ (tpc = "reset_time" /\ tpc' # tpc)
            => (tpc' = "reset_flag" /\ current_time' = 0 /\ mutex' = "timer")
       /\ (reset_requested = 1 /\ reset_requested' = 0)
            => /\ tpc = "reset_flag" /\ tpc' = "unlock"
               /\ mutex = "timer" /\ current_time = 0 /\ current_time' = 0
               /\ UNCHANGED << buttonVars, displayVars, hpc >>
       /\ (reset_requested = 0 /\ reset_requested' = 1)
            => /\ bpc = "rs_set" /\ bpc' = "rs_unlock"
               /\ UNCHANGED << timerVars, displayVars, hpc >>]_vars
C26_Witness ==
    /\ tpc = "unlock" /\ tEntryReset = 1 /\ mutex = "timer"
    /\ reset_requested = 0 /\ current_time = 0
    /\ bpc = "rs_lock" /\ dpc = "lock" /\ nFlips > 0

(***************************************************************************)
(* C27: current_time is at least 0 in every reachable state.               *)
(***************************************************************************)
C27_NonNegative == current_time >= 0

(***************************************************************************)
(* C28: when the process has exited through cleanup, the red LED and the   *)
(* green LED are both off.                                                 *)
(***************************************************************************)
C28_LedsOffAtExit ==
    hpc = "done" => (red_led = GPIO_OFF /\ green_led = GPIO_OFF)

(***************************************************************************)
(* C29: when cleanup calls pthread_mutex_destroy no worker owns the mutex  *)
(* (so none is blocked on it), and between that call and the exit of the   *)
(* process no lock or unlock call changes the owner of the mutex.          *)
(***************************************************************************)
C29_DestroyOnlyWhenUnused ==
    [][/\ (hpc = "destroy" /\ hpc' = "exit") => mutex \notin Workers
       /\ hpc = "exit" => mutex' = mutex]_vars

(***************************************************************************)
(* C30: while the process runs with an LED driven on, the termination      *)
(* handler is installed, and a process ended by the default action of a    *)
(* termination signal (status 128 + 2) leaves no LED on.                   *)
(***************************************************************************)
C30_NoWindowBeforeHandler ==
    /\ (Running /\ (red_led = GPIO_ON \/ green_led = GPIO_ON))
           => HandlerInstalled
    /\ exit_code = 128 + 2
           => (red_led = GPIO_OFF /\ green_led = GPIO_OFF)

(***************************************************************************)
(* bbbio.c: pin identifiers setup_pwm does not know.                       *)
(***************************************************************************)
\* C31: a call of setup_pwm with a valid frequency and duty cycle and a pin
\* identifier other than "1A", "1B", "2A", "2B" returns 0 and has written
\* to no file: no export file has received a negative channel number and
\* no enable file has been written.
C31_UnknownPinRejected ==
    (/\ pwm_pc = "returned"
     /\ ~InvalidPwmArguments(frequency, duty_percent)
     /\ PwmChannel(pin_identifier) = NoChannel)
        => /\ pwm_result = 0
           /\ pwm_writes = << >>
           /\ \A i \in 1..Len(pwm_writes) :
                /\ pwm_writes[i].file = "export" => pwm_writes[i].value >= 0
                /\ pwm_writes[i].file # "enable"

====
